---- MODULE Spec2Model ----
(***************************************************************************)
(* Model of the relay pipeline of scripts/relayerV2.js: the ChainListener  *)
(* subscription callback, Relayer.init/start/stop, Relayer.handleEvent,    *)
(* Relayer.getPolymerProof, Relayer.updateChain and main's SIGINT handler, *)
(* together with getEnabledChains of config/chains.js.                     *)
(*                                                                         *)
(* The program runs on one event loop.  A step of the model is what runs   *)
(* between two suspension points on external I/O (an RPC call, an HTTP     *)
(* call to the proof API, the 500 ms timer): the code reached through      *)
(* awaits on already-settled promises belongs to the same step, because no *)
(* I/O completion, log delivery or signal can run in between.              *)
(*                                                                         *)
(* Three specifications share the variables:                               *)
(*   Spec          the relayer process, from `new Relayer()` in main();    *)
(*   SpecListener  a client calling ChainListener.start()/stop() on the    *)
(*                 listeners of an initialized relayer;                    *)
(*   SpecContract  the transactions of one InvoiceIDBatcher contract       *)
(*                 (contracts/invoiceIDBatcher.sol).                       *)
(***************************************************************************)
EXTENDS Integers, Sequences, FiniteSets, TLC

\* ------------------------------------------------------------------ bounds
\* The environment of the program is one of three kinds (see Init):
\*   - MaxDeliveries logs are delivered, the proof API has every proof
\*     ready at the first query and no signal arrives;
\*   - MaxDeliveriesWithSignal logs are delivered, the proof API answers
\*     "not ready" up to MaxNotReady times and SIGINT may arrive;
\*   - one log is delivered and the proof API never has the proof ready.
MaxDeliveries == 2
MaxDeliveriesWithSignal == 1
MaxNotReady == 1
\* Number of start()/stop() calls a client makes on the listeners of an
\* initialized relayer (SpecListener).
MaxCalls == 3
\* Number of transactions sent to one InvoiceIDBatcher contract (SpecContract).
MaxTxs == 5
\* relayerV2.js:266  while (attempts < 120)
MaxAttempts == 120

\* ------------------------------------------------------- chains and config
\* The keys of CHAINS that carry an envPrefix (chains.js:16-39).
PrefixedKeys == {"optimism-sepolia", "arbitrum-sepolia", "base-sepolia"}
\* A key of CHAINS without envPrefix/rpc (chains.js:40-69).
UnprefixedKeys == {"mode-sepolia"}
ChainKeys == PrefixedKeys \cup UnprefixedKeys

\* An environment: ACTIVATED_CHAINS and, per chain, whether <PREFIX>_RPC,
\* the prover address and <PREFIX>_INVOICEBATCHER_ADDRESS are set.
FullEnv ==
    [activated |-> <<"optimism-sepolia", "arbitrum-sepolia", "base-sepolia">>,
     rpc |-> PrefixedKeys, prover |-> PrefixedKeys, addr |-> PrefixedKeys]

NoAddrEnv ==
    [activated |-> <<"optimism-sepolia", "arbitrum-sepolia", "base-sepolia">>,
     rpc |-> PrefixedKeys, prover |-> PrefixedKeys,
     addr |-> {"optimism-sepolia", "base-sepolia"}]

\* ACTIVATED_CHAINS names a key of CHAINS without envPrefix/rpc and the three
\* prefixed keys; base-sepolia has no prover address, arbitrum-sepolia has no
\* invoice batcher address.
SparseEnv ==
    [activated |-> <<"mode-sepolia", "optimism-sepolia", "arbitrum-sepolia", "base-sepolia">>,
     rpc |-> PrefixedKeys, prover |-> {"optimism-sepolia", "arbitrum-sepolia"},
     addr |-> {"optimism-sepolia", "base-sepolia"}]

\* No activated chain passes the filter of getEnabledChains.
NoChainEnv ==
    [activated |-> <<"mode-sepolia", "base-sepolia">>,
     rpc |-> {"optimism-sepolia", "arbitrum-sepolia"}, prover |-> PrefixedKeys,
     addr |-> PrefixedKeys]

\* The only enabled chain has no invoice batcher address.
NoListenerEnv ==
    [activated |-> <<"arbitrum-sepolia">>,
     rpc |-> PrefixedKeys, prover |-> PrefixedKeys,
     addr |-> {"optimism-sepolia", "base-sepolia"}]

\* ACTIVATED_CHAINS names one chain twice.
DupEnv ==
    [activated |-> <<"optimism-sepolia", "base-sepolia", "base-sepolia">>,
     rpc |-> PrefixedKeys, prover |-> PrefixedKeys, addr |-> PrefixedKeys]

Envs == {FullEnv, NoAddrEnv, SparseEnv, NoChainEnv, NoListenerEnv, DupEnv}

\* chains.js:72-78  getEnabledChains
getEnabledChains(e) ==
    SelectSeq(e.activated,
              LAMBDA k : k \in ChainKeys /\ k \in e.rpc /\ k \in e.prover)

SeqToSet(s) == {s[i] : i \in DOMAIN s}

\* ------------------------------------------------------------------- logs
BlockHashes == {"bh1"}
TxHashes == {"tx1"}
\* The logs of the transaction that emitted the batch events, in receipt
\* order; a log's index is its 0-based position.
TxLogs == <<"NewInvoice", "InvoiceBatch", "InvoiceBatch">>
BatchLogIndexes == {i - 1 : i \in {j \in DOMAIN TxLogs : TxLogs[j] = "InvoiceBatch"}}

\* The batch-event logs the chains emit: the two batch events of one
\* transaction on optimism-sepolia and one batch event on arbitrum-sepolia.
Logs ==
    [chain : {"optimism-sepolia"}, blk : BlockHashes, tx : TxHashes, idx : BatchLogIndexes]
    \cup [chain : {"arbitrum-sepolia"}, blk : BlockHashes, tx : TxHashes, idx : {1}]

\* relayerV2.js:63  `${blockHash}-${transactionHash}-${index}`
ListenerEventId(log) == <<log.blk, log.tx, log.idx>>

\* relayerV2.js:158  `${sourceChain.chainId}-${transactionHash}`
TicketId(log) == <<log.chain, log.tx>>

VARIABLES
    env,              \* process.env, fixed for the process lifetime
    enabledChains,    \* Relayer.enabledChains
    listeners,        \* Relayer.listeners: chain keys in Map insertion order
    isListening,      \* ChainListener.isListening, per chain
    subscriptions,    \* number of InvoiceBatch callbacks registered, per chain
    processedEvents,  \* ChainListener.processedEvents, per chain
    processingEvents, \* Relayer.processingEvents (the in-flight tickets)
    tasks,            \* the invocations of the listener callback, in order
    deliveriesLeft,   \* log deliveries the chain clients may still make
    notReadyLeft,     \* "not ready" answers the proof API may still give
    signalsLeft,      \* SIGINT signals the process may still receive
    mainPc,           \* position of main()
    startIdx,         \* index in listeners of the listener being started
    sigPc,            \* position of the SIGINT handler
    stopIdx,          \* index in listeners of the listener being stopped
    exited,           \* "no", or how the process ended
    abandoned,        \* where the unfinished invocations stood at process.exit
    pendingCalls,     \* per chain, the start()/stop() calls suspended at their await
    callLog,          \* the start()/stop() calls made by the client, in order
    admin,                  \* InvoiceIDBatcher.admin
    pendingInvoices,        \* InvoiceIDBatcher.pendingInvoices
    usedProofHashes,        \* InvoiceIDBatcher.usedProofHashes (the keys mapped to true)
    trustedSourceContracts, \* InvoiceIDBatcher.trustedSourceContracts
    txLog,            \* the transactions that succeeded, with their events
    lastTx,           \* the last transaction sent, reverted or not
    txsLeft           \* transactions that may still be sent

vars == <<env, enabledChains, listeners, isListening, subscriptions,
          processedEvents, processingEvents, tasks, deliveriesLeft,
          notReadyLeft, signalsLeft, mainPc, startIdx, sigPc, stopIdx, exited,
          abandoned, pendingCalls, callLog, admin, pendingInvoices,
          usedProofHashes, trustedSourceContracts, txLog, lastTx, txsLeft>>

\* What the environment may still do.
envVars == <<deliveriesLeft, notReadyLeft, signalsLeft>>
cfgVars == <<env, enabledChains>>
listenerVars == <<listeners, isListening, subscriptions>>
lifeVars == <<mainPc, startIdx, sigPc, stopIdx, exited>>
\* What no step of the running process changes.
harnessVars == <<pendingCalls, callLog>>
storageVars == <<admin, pendingInvoices, usedProofHashes, trustedSourceContracts>>
contractVars == <<storageVars, txLog, lastTx, txsLeft>>
idleVars == <<abandoned, harnessVars, contractVars>>

\* ---------------------------------------------------- the on-chain contract
\* The chain the contract is deployed on (block.chainid) and the other chains.
ContractChain == "base-sepolia"
ChainIds == PrefixedKeys
ZeroAddress == "0x0"
ZeroHash == "0x00"
Deployer == "deployer"

\* invoiceIDBatcher.sol:82-85  the storage after the constructor has run.
Deployed ==
    /\ admin = Deployer
    /\ pendingInvoices = <<>>
    /\ usedProofHashes = {}
    /\ trustedSourceContracts = [c \in ChainIds |-> ZeroAddress]
    /\ txLog = <<>>
    /\ lastTx = [fn |-> "constructor", sender |-> Deployer, reverted |-> FALSE]

\* ------------------------------------------------------------ construction
\* State after `new Relayer()` and process.on('SIGINT', ...) in main()
\* (relayerV2.js:101-118, 323-329; ChainListener fields 44-45).
Init ==
    /\ env \in Envs
    /\ enabledChains = getEnabledChains(env)
    /\ listeners = <<>>
    /\ isListening = [c \in PrefixedKeys |-> FALSE]
    /\ subscriptions = [c \in PrefixedKeys |-> 0]
    /\ processedEvents = [c \in PrefixedKeys |-> {}]
    /\ processingEvents = {}
    /\ tasks = <<>>
    /\ \/ /\ deliveriesLeft = MaxDeliveries
          /\ notReadyLeft = 0
          /\ signalsLeft = 0
       \/ /\ deliveriesLeft = MaxDeliveriesWithSignal
          /\ notReadyLeft = MaxNotReady
          /\ signalsLeft = 1
       \/ /\ deliveriesLeft = 1
          /\ notReadyLeft = MaxAttempts + 1
          /\ signalsLeft = 0
    /\ mainPc = "new"
    /\ startIdx = 0
    /\ sigPc = "none"
    /\ stopIdx = 0
    /\ exited = "no"
    /\ abandoned = {}
    /\ pendingCalls = [c \in PrefixedKeys |-> [start |-> 0, stop |-> 0]]
    /\ callLog = <<>>
    /\ Deployed
    /\ txsLeft = 0

\* ---------------------------------------------------------------- lifecycle
\* Variant of BuildListeners: a chain without invoice batcher address makes
\* init() throw instead of being skipped.
RECURSIVE BuildListenersStrict(_, _, _)
BuildListenersStrict(e, chains, acc) ==
    IF chains = <<>> THEN [listeners |-> acc, threw |-> FALSE]
    ELSE LET c == Head(chains) IN
         IF c \notin e.addr \/ c \notin e.rpc THEN [listeners |-> acc, threw |-> TRUE]
         ELSE BuildListenersStrict(e, Tail(chains),
                             IF c \in SeqToSet(acc) THEN acc ELSE Append(acc, c))

\* relayerV2.js:123-132  the loop of Relayer.init: a chain without
\* <PREFIX>_INVOICEBATCHER_ADDRESS is skipped; the ChainListener constructor
\* (20-36) throws without <PREFIX>_RPC; listeners.set keeps one entry per
\* chain id, at the position of its first insertion.
RECURSIVE BuildListeners(_, _, _)
BuildListeners(e, chains, acc) ==
    IF chains = <<>> THEN [listeners |-> acc, threw |-> FALSE]
    ELSE LET c == Head(chains) IN
         IF c \notin e.addr THEN BuildListeners(e, Tail(chains), acc)
         ELSE IF c \notin e.rpc THEN [listeners |-> acc, threw |-> TRUE]
         ELSE BuildListeners(e, Tail(chains),
                             IF c \in SeqToSet(acc) THEN acc ELSE Append(acc, c))

\* Variant of NextToStart: the isListening test omitted, start() always goes
\* on to getBlockNumber.
NextToStartUnguarded(ls, isL, i) == i

\* relayerV2.js:49  start() returns at once on a listener that is listening:
\* the first index >= i of a listener whose start() reaches getBlockNumber,
\* or Len + 1 when Relayer.start's loop (142-144) is over.
RECURSIVE NextToStart(_, _, _)
NextToStart(ls, isL, i) ==
    IF i > Len(ls) THEN i
    ELSE IF isL[ls[i]] THEN NextToStart(ls, isL, i + 1)
    ELSE i

\* Variant of NextToStop: the isListening test omitted, stop() always goes
\* on to removeAllListeners.
NextToStopUnguarded(ls, isL, i) == i

\* relayerV2.js:93  stop() returns at once on a listener that is not
\* listening: the first index >= i of a listener whose stop() reaches
\* removeAllListeners, or Len + 1 when Relayer.stop's loop (151-153) is over.
RECURSIVE NextToStop(_, _, _)
NextToStop(ls, isL, i) ==
    IF i > Len(ls) THEN i
    ELSE IF isL[ls[i]] THEN i
    ELSE NextToStop(ls, isL, i + 1)

\* relayerV2.js:60  this.contract.on("InvoiceBatch", callback)
Subscribe(subs, c) == [subs EXCEPT ![c] = @ + 1]

\* relayerV2.js:94  this.contract.removeAllListeners()
Unsubscribe(subs, c) == [subs EXCEPT ![c] = 0]

\* process.exit (relayerV2.js:328, 338): the process ends and with it every
\* object of the program: listeners, tickets, recorded event ids and the
\* suspended invocations, which never resume.
ProcessExit(how) ==
    /\ exited' = how
    /\ mainPc' = "exited"
    /\ sigPc' = "exited"
    /\ startIdx' = 0
    /\ stopIdx' = 0
    /\ listeners' = <<>>
    /\ isListening' = [c \in PrefixedKeys |-> FALSE]
    /\ subscriptions' = [c \in PrefixedKeys |-> 0]
    /\ processedEvents' = [c \in PrefixedKeys |-> {}]
    /\ processingEvents' = {}
    /\ tasks' = <<>>
    /\ deliveriesLeft' = 0
    /\ notReadyLeft' = 0
    /\ signalsLeft' = 0
    /\ abandoned' = {tasks[t].pc : t \in DOMAIN tasks} \ {"done"}
    /\ UNCHANGED <<cfgVars, harnessVars, contractVars>>

\* Variant of RelayerInit: main ignores the failure of init() and calls
\* start() all the same.
RelayerInitLenient ==
    /\ exited = "no"
    /\ mainPc = "new"
    /\ LET built == BuildListeners(env, enabledChains, <<>>)
           nxt == NextToStart(built.listeners, isListening, 1) IN
       /\ listeners' = built.listeners
       /\ mainPc' = IF nxt > Len(built.listeners) THEN "watching" ELSE "starting"
       /\ startIdx' = nxt
       /\ UNCHANGED <<cfgVars, idleVars, isListening, subscriptions, processedEvents,
                      processingEvents, tasks, envVars,
                      sigPc, stopIdx, exited>>

\* relayerV2.js:331-333, 120-137: main awaits relayer.init(), which has no
\* suspension point, and then calls relayer.start(), which runs up to the
\* first listener's `await this.provider.getBlockNumber()` (line 56).
\* An init() that throws ends in main's catch: process.exit(1) (336-338).
RelayerInit ==
    /\ exited = "no"
    /\ mainPc = "new"
    /\ LET built == BuildListeners(env, enabledChains, <<>>) IN
       IF built.threw \/ Len(built.listeners) = 0
       THEN ProcessExit("error")
       ELSE /\ listeners' = built.listeners
            /\ mainPc' = "starting"
            /\ startIdx' = NextToStart(built.listeners, isListening, 1)
            /\ UNCHANGED <<cfgVars, idleVars, isListening, subscriptions, processedEvents,
                           processingEvents, tasks, envVars,
                           sigPc, stopIdx, exited>>

\* relayerV2.js:56-90: getBlockNumber resolved; the InvoiceBatch callback is
\* registered, isListening is set, and Relayer.start goes on to the next
\* listener (142-144) or returns to main (335).
ListenerStarted ==
    /\ exited = "no"
    /\ mainPc = "starting"
    /\ LET c == listeners[startIdx]
           isL == [isListening EXCEPT ![c] = TRUE]
           nxt == NextToStart(listeners, isL, startIdx + 1) IN
       /\ subscriptions' = Subscribe(subscriptions, c)
       /\ isListening' = isL
       /\ startIdx' = nxt
       /\ mainPc' = IF nxt > Len(listeners) THEN "watching" ELSE "starting"
    /\ UNCHANGED <<cfgVars, idleVars, listeners, processedEvents, processingEvents,
                   tasks, envVars, sigPc, stopIdx, exited>>

\* Variant of ListenerStartFailed: Relayer.start catches the rejection of a
\* listener's start() and goes on with the next listener.
ListenerStartFailedSkipped ==
    /\ exited = "no"
    /\ mainPc = "starting"
    /\ LET nxt == NextToStart(listeners, isListening, startIdx + 1) IN
       /\ startIdx' = nxt
       /\ mainPc' = IF nxt > Len(listeners) THEN "watching" ELSE "starting"
    /\ UNCHANGED <<cfgVars, idleVars, listeners, isListening, subscriptions,
                   processedEvents, processingEvents, tasks, envVars, sigPc,
                   stopIdx, exited>>

\* relayerV2.js:56: getBlockNumber rejects; start() rejects, Relayer.start
\* rejects and main's catch calls process.exit(1) (336-338).
ListenerStartFailed ==
    /\ exited = "no"
    /\ mainPc = "starting"
    /\ ProcessExit("error")

\* relayerV2.js:325-329, 149-154, 92-97: the SIGINT handler calls
\* relayer.stop(), which runs up to the first listening listener's
\* `await this.contract.removeAllListeners()`; with no listening listener
\* stop() returns and the handler calls process.exit().  A signal is handled
\* between event-loop tasks, i.e. while main is suspended or has returned.
Sigint ==
    /\ exited = "no"
    /\ sigPc = "none"
    /\ signalsLeft > 0
    /\ mainPc \in {"starting", "watching"}
    /\ LET nxt == NextToStop(listeners, isListening, 1) IN
       IF nxt > Len(listeners)
       THEN ProcessExit("sigint")
       ELSE /\ sigPc' = "stopping"
            /\ stopIdx' = nxt
            /\ signalsLeft' = signalsLeft - 1
            /\ UNCHANGED <<cfgVars, idleVars, listenerVars, processedEvents,
                           processingEvents, tasks, deliveriesLeft, notReadyLeft,
                           mainPc, startIdx, exited>>

\* Variant of ListenerStopped: stopping a listener also drops the
\* invocations in progress and their tickets.
ListenerStoppedCancelling ==
    /\ exited = "no"
    /\ sigPc = "stopping"
    /\ LET c == listeners[stopIdx]
           isL == [isListening EXCEPT ![c] = FALSE]
           nxt == NextToStop(listeners, isL, stopIdx + 1) IN
       IF nxt > Len(listeners)
       THEN ProcessExit("sigint")
       ELSE /\ subscriptions' = Unsubscribe(subscriptions, c)
            /\ isListening' = isL
            /\ stopIdx' = nxt
            /\ tasks' = <<>>
            /\ processingEvents' = {}
            /\ UNCHANGED <<cfgVars, idleVars, listeners, processedEvents,
                           envVars, mainPc, startIdx, sigPc, exited>>

\* Variant of ListenerStopped: the SIGINT handler returns after
\* relayer.stop() instead of calling process.exit().
ListenerStoppedReturning ==
    /\ exited = "no"
    /\ sigPc = "stopping"
    /\ LET c == listeners[stopIdx]
           isL == [isListening EXCEPT ![c] = FALSE]
           nxt == NextToStop(listeners, isL, stopIdx + 1) IN
       /\ subscriptions' = Unsubscribe(subscriptions, c)
       /\ isListening' = isL
       /\ stopIdx' = nxt
       /\ sigPc' = IF nxt > Len(listeners) THEN "returned" ELSE "stopping"
       /\ UNCHANGED <<cfgVars, idleVars, listeners, processedEvents,
                      processingEvents, tasks, envVars, mainPc, startIdx, exited>>

\* relayerV2.js:94-96: removeAllListeners resolved: the subscription is gone
\* and isListening is cleared; Relayer.stop goes on to the next listening
\* listener, or returns and the handler calls process.exit() (328).
ListenerStopped ==
    /\ exited = "no"
    /\ sigPc = "stopping"
    /\ LET c == listeners[stopIdx]
           isL == [isListening EXCEPT ![c] = FALSE]
           nxt == NextToStop(listeners, isL, stopIdx + 1) IN
       IF nxt > Len(listeners)
       THEN ProcessExit("sigint")
       ELSE /\ subscriptions' = Unsubscribe(subscriptions, c)
            /\ isListening' = isL
            /\ stopIdx' = nxt
            /\ UNCHANGED <<cfgVars, idleVars, listeners, processedEvents, processingEvents,
                           tasks, envVars, mainPc, startIdx,
                           sigPc, exited>>

\* ------------------------------------------------- listener callback, runs
NoRequest == <<>>
NoProof == [enc |-> "none", of |-> NoRequest]

\* One invocation of the InvoiceBatch callback (relayerV2.js:60-86) and,
\* inside it, of handleEvent (156-205):
\*   pc        where the invocation is suspended, or "done"
\*   owner     whether its handleEvent call created the ticket (line 161)
\*   attempts  the poll loop's counter (265, 289)
\*   requests  log_requestProof calls sent; polls: log_queryProof calls sent
\*   request   the params of the proof request (243-248)
\*   proof     the value returned by getPolymerProof (283-286)
\*   targets   targetChains (179-181); subs: the state of each updatePromise
\*   sent      the proof argument of each updateChain call (184)
\*   results   what lines 189-197 report, per index
\*   duringRun whether the log was delivered while a run of the same event
\*             identity was in flight (history, read by no action)
NewTask(log, duringRun) ==
    [log |-> log, pc |-> "cbReceipt", owner |-> FALSE, duringRun |-> duringRun,
     attempts |-> 0,
     requests |-> 0, polls |-> 0, request |-> NoRequest, proof |-> NoProof,
     targets |-> <<>>, subs |-> <<>>, sent |-> <<>>, results |-> <<>>,
     outcome |-> "none"]

\* Variant of AlreadyProcessed: the check omitted, every delivery goes on.
NeverProcessed(processed, id) == FALSE

\* relayerV2.js:66  this.processedEvents.has(eventId)
AlreadyProcessed(processed, id) == id \in processed

\* relayerV2.js:82  this.processedEvents.add(eventId)
RecordProcessed(processed, id) == processed \cup {id}

\* Variant of HasTicket: the ticket is looked up under the listener's event
\* id instead of the id it was stored under, so the lookup never hits.
HasTicketWrongKey(tickets, id) == <<"any", id[1], id[2]>> \in tickets

\* relayerV2.js:160  this.processingEvents.has(eventId)
HasTicket(tickets, id) == id \in tickets

\* relayerV2.js:161  this.processingEvents.set(eventId, true)
CreateTicket(tickets, id) == tickets \cup {id}

\* Variant of ReleaseTicket: the delete at the end of the try block instead
\* of in a finally, so a failed run keeps its ticket.
ReleaseTicketOnSuccess(tickets, id, outcome) ==
    IF outcome = "completed" THEN tickets \ {id} ELSE tickets

\* Variant of ReleaseTicket: the finally omitted, no run removes its ticket.
ReleaseTicketNever(tickets, id, outcome) == tickets

\* relayerV2.js:202-204  finally { this.processingEvents.delete(eventId) }
ReleaseTicket(tickets, id, outcome) == tickets \ {id}

\* Variant of FindIndex: the last matching log instead of the first.
FindLastIndex(logs, topic) ==
    LET hits == {i \in DOMAIN logs : logs[i] = topic} IN
    IF hits = {} THEN -1
    ELSE (CHOOSE i \in hits : \A j \in hits : i >= j) - 1

\* relayerV2.js:222-224  txReceipt.logs.findIndex(topic0 = InvoiceBatch)
FindIndex(logs, topic) ==
    LET hits == {i \in DOMAIN logs : logs[i] = topic} IN
    IF hits = {} THEN -1
    ELSE (CHOOSE i \in hits : \A j \in hits : i <= j) - 1

\* The receipts the RPC endpoint can return for the transaction: its logs,
\* or (an inconsistent node) logs without the batch event.
ReceiptChoices == {TxLogs, <<"NewInvoice">>}

\* relayerV2.js:283  base64 -> hex of the bytes the API returned for the job
DecodeProof(apiProof) == [enc |-> "hex", of |-> apiProof.of]

\* The proof API's answer to log_queryProof for a job: the proof of the
\* requested log, base64-encoded.
ApiProof(request) == [enc |-> "base64", of |-> request]

\* Variant of TargetChains: the filter omitted, the source chain is updated too.
AllChains(chains, source) == chains

\* relayerV2.js:179-181  enabledChains.filter(chainId !== source chainId)
TargetChains(chains, source) == SelectSeq(chains, LAMBDA c : c /= source)

\* relayerV2.js:300-310  updateChain up to its first suspension point:
\* `new ethers.Contract(undefined, ...)` (305, outside the try) throws for a
\* chain without invoice batcher address, otherwise invoicesFromSource is
\* called; the updatePromise stays pending over the two awaits (308, 313).
UpdateChainStart(e, target) ==
    IF target \in e.addr THEN "pending" ELSE "rejectedCtor"

\* relayerV2.js:183-185  every updateChain call is given the proof variable
\* of handleEvent.
Submissions(targets, proof) == [i \in DOMAIN targets |-> proof]

\* relayerV2.js:183-185  targetChains.map(updateChain)
StartUpdates(e, targets) ==
    [i \in DOMAIN targets |-> UpdateChainStart(e, targets[i])]

Settled(sub) == sub \in {"fulfilled", "rejected", "rejectedCtor"}

\* Variant of AllSettled: Promise.all, which settles with the first rejection.
PromiseAll(subs) ==
    \/ \A i \in DOMAIN subs : subs[i] = "fulfilled"
    \/ \E i \in DOMAIN subs : subs[i] \in {"rejected", "rejectedCtor"}

\* relayerV2.js:187  Promise.allSettled(updatePromises) has resolved
AllSettled(subs) == \A i \in DOMAIN subs : Settled(subs[i])

\* Variant of Results: only the fulfilled updates are collected, so the
\* entries of the failed targets are missing and the indexes shift.
FulfilledResults(targets, subs) ==
    LET ok == SelectSeq([i \in DOMAIN subs |-> i], LAMBDA i : subs[i] = "fulfilled") IN
    [k \in DOMAIN ok |-> [chain |-> targets[k], status |-> "fulfilled"]]

\* relayerV2.js:187-197  the results, by index, attributed to targetChains[index]
Results(targets, subs) ==
    [i \in DOMAIN subs |->
        [chain |-> targets[i],
         status |-> IF subs[i] = "fulfilled" THEN "fulfilled"
                    ELSE IF Settled(subs[i]) THEN "rejected" ELSE "pending"]]

Active(t) == exited = "no" /\ t \in DOMAIN tasks

\* The invocation t is between ticket creation (161) and removal (203).
Running(t) == t \in DOMAIN tasks /\ tasks[t].owner /\ tasks[t].pc /= "done"

\* A run of the event identity of `log` is in flight.
InFlight(log) == \E t \in DOMAIN tasks : Running(t) /\ tasks[t].log = log

\* The invocation t moves to rec; nothing else of the orchestrator changes.
Continue(t, rec) ==
    /\ tasks' = [tasks EXCEPT ![t] = rec]
    /\ UNCHANGED <<processedEvents, processingEvents>>

\* Variant of EndRun: the catch encloses getPolymerProof alone, so a run
\* without proof still calls updateChain for every target before it ends.
EndRunAfterDispatch(t, rec, outcome) ==
    LET targets == TargetChains(enabledChains, rec.log.chain)
        r == IF outcome = "completed" THEN rec
             ELSE [rec EXCEPT !.targets = targets, !.subs = StartUpdates(env, targets),
                              !.sent = Submissions(targets, rec.proof)] IN
    /\ tasks' = [tasks EXCEPT ![t] = [r EXCEPT !.pc = "done", !.outcome = outcome]]
    /\ processingEvents' = ReleaseTicket(processingEvents, TicketId(rec.log), outcome)
    /\ processedEvents' =
          [processedEvents EXCEPT ![rec.log.chain] =
              RecordProcessed(@, ListenerEventId(rec.log))]

\* Variant of EndRun: the catch of handleEvent rethrows, so after a failed
\* run the callback's own catch is entered and the event id is not recorded.
EndRunRethrowing(t, rec, outcome) ==
    /\ tasks' = [tasks EXCEPT ![t] = [rec EXCEPT !.pc = "done", !.outcome = outcome]]
    /\ processingEvents' = ReleaseTicket(processingEvents, TicketId(rec.log), outcome)
    /\ processedEvents' =
          IF outcome = "completed"
          THEN [processedEvents EXCEPT ![rec.log.chain] =
                   RecordProcessed(@, ListenerEventId(rec.log))]
          ELSE processedEvents

\* relayerV2.js:200-205, 82: the run of t ends with `outcome`: the catch
\* logs, the finally removes the ticket, handleEvent resolves and the
\* callback records the event id.
EndRun(t, rec, outcome) ==
    /\ tasks' = [tasks EXCEPT ![t] = [rec EXCEPT !.pc = "done", !.outcome = outcome]]
    /\ processingEvents' = ReleaseTicket(processingEvents, TicketId(rec.log), outcome)
    /\ processedEvents' =
          [processedEvents EXCEPT ![rec.log.chain] =
              RecordProcessed(@, ListenerEventId(rec.log))]

\* relayerV2.js:187-198: once every updatePromise has settled the results
\* are reported and the run ends; until then handleEvent stays suspended.
Join(t, rec) ==
    IF AllSettled(rec.subs)
    THEN EndRun(t, [rec EXCEPT !.results = Results(rec.targets, rec.subs)], "completed")
    ELSE Continue(t, rec)

\* Variant of LoopTest: an inclusive comparison.
LoopTestInclusive(attempts) == attempts <= MaxAttempts

\* relayerV2.js:266  while (attempts < 120)
LoopTest(attempts) == attempts < MaxAttempts

\* relayerV2.js:266-280, 293: the loop test; another log_queryProof is sent,
\* or the loop is left and "Timeout waiting for proof" is thrown.
PollOrTimeout(t, rec) ==
    IF LoopTest(rec.attempts)
    THEN Continue(t, [rec EXCEPT !.pc = "poll", !.polls = @ + 1])
    ELSE EndRun(t, rec, "timeout")

\* relayerV2.js:60-66: the chain client delivers a log to every callback
\* registered for the batch event, one after the other; a recorded event id
\* ends the invocation, otherwise it awaits the receipt (78).
Deliver(log) ==
    /\ exited = "no"
    /\ deliveriesLeft > 0
    /\ subscriptions[log.chain] > 0
    /\ deliveriesLeft' = deliveriesLeft - 1
    /\ tasks' = tasks \o
          [i \in 1..subscriptions[log.chain] |->
             IF AlreadyProcessed(processedEvents[log.chain], ListenerEventId(log))
             THEN [NewTask(log, InFlight(log)) EXCEPT
                       !.pc = "done", !.outcome = "skipProcessed"]
             ELSE NewTask(log, InFlight(log))]
    /\ UNCHANGED <<cfgVars, idleVars, listenerVars, lifeVars, processedEvents,
                   processingEvents, notReadyLeft, signalsLeft>>

\* Variant of CallbackReceiptFailed: the callback has no try/catch, so the
\* rejection is unhandled and ends the process.
CallbackReceiptFailedUnhandled(t) ==
    /\ Active(t)
    /\ tasks[t].pc = "cbReceipt"
    /\ ProcessExit("error")

\* Variant of CallbackReceiptFailed: the event id is recorded in a finally,
\* also when the receipt lookup failed.
CallbackReceiptFailedRecorded(t) ==
    /\ Active(t)
    /\ tasks[t].pc = "cbReceipt"
    /\ tasks' = [tasks EXCEPT ![t] = [@ EXCEPT !.pc = "done", !.outcome = "cbError"]]
    /\ processedEvents' =
          [processedEvents EXCEPT ![tasks[t].log.chain] =
              RecordProcessed(@, ListenerEventId(tasks[t].log))]
    /\ UNCHANGED <<processingEvents, cfgVars, idleVars, listenerVars, lifeVars, envVars>>

\* relayerV2.js:78-79, 83-85: the receipt lookup rejects (or yields null, so
\* that receipt.index throws); the catch logs it.
CallbackReceiptFailed(t) ==
    /\ Active(t)
    /\ tasks[t].pc = "cbReceipt"
    /\ Continue(t, [tasks[t] EXCEPT !.pc = "done", !.outcome = "cbError"])
    /\ UNCHANGED <<cfgVars, idleVars, listenerVars, lifeVars, envVars>>

\* relayerV2.js:78-82, 156-161, 171, 207-213: the receipt lookup resolved;
\* handleEvent is called.  With a ticket present it returns and the callback
\* records the event id; otherwise it creates the ticket and getPolymerProof
\* runs up to its `await provider.getTransactionReceipt` (213).
CallbackReceiptReturned(t) ==
    /\ Active(t)
    /\ tasks[t].pc = "cbReceipt"
    /\ LET log == tasks[t].log IN
       IF HasTicket(processingEvents, TicketId(log))
       THEN /\ tasks' = [tasks EXCEPT ![t] =
                            [@ EXCEPT !.pc = "done", !.outcome = "skipInFlight"]]
            /\ processedEvents' =
                  [processedEvents EXCEPT ![log.chain] =
                      RecordProcessed(@, ListenerEventId(log))]
            /\ UNCHANGED processingEvents
       ELSE /\ tasks' = [tasks EXCEPT ![t] =
                            [@ EXCEPT !.pc = "proofReceipt", !.owner = TRUE]]
            /\ processingEvents' = CreateTicket(processingEvents, TicketId(log))
            /\ UNCHANGED processedEvents
    /\ UNCHANGED <<cfgVars, idleVars, listenerVars, lifeVars, envVars>>

\* Variant of ProofReceiptFailed: the null test placed after the proof
\* request, which is sent before the call fails.
ProofReceiptFailedAfterRequest(t) ==
    /\ Active(t)
    /\ tasks[t].pc = "proofReceipt"
    /\ EndRun(t, [tasks[t] EXCEPT !.requests = @ + 1], "receiptMissing")
    /\ UNCHANGED <<cfgVars, idleVars, listenerVars, lifeVars, envVars>>

\* relayerV2.js:213-217: the receipt lookup rejects or yields null.
ProofReceiptFailed(t) ==
    /\ Active(t)
    /\ tasks[t].pc = "proofReceipt"
    /\ EndRun(t, tasks[t], "receiptMissing")
    /\ UNCHANGED <<cfgVars, idleVars, listenerVars, lifeVars, envVars>>

\* relayerV2.js:213-255: a receipt is returned; without a batch-event log
\* the run fails (226-228), otherwise log_requestProof is sent with the
\* local index of the first batch-event log.
ProofReceiptReturned(t) ==
    /\ Active(t)
    /\ tasks[t].pc = "proofReceipt"
    /\ \E logs \in ReceiptChoices :
          LET localLogIndex == FindIndex(logs, "InvoiceBatch")
              log == tasks[t].log IN
          IF localLogIndex = -1
          THEN EndRun(t, tasks[t], "logNotFound")
          ELSE Continue(t, [tasks[t] EXCEPT
                    !.pc = "request", !.requests = @ + 1,
                    !.request = <<log.chain, log.blk, log.tx, localLogIndex>>])
    /\ UNCHANGED <<cfgVars, idleVars, listenerVars, lifeVars, envVars>>

\* Variant of ProofRequestRejected: a rejected request is sent again.
ProofRequestRetried(t) ==
    /\ Active(t)
    /\ tasks[t].pc = "request"
    /\ Continue(t, [tasks[t] EXCEPT !.requests = @ + 1])
    /\ UNCHANGED <<cfgVars, idleVars, listenerVars, lifeVars, envVars>>

\* relayerV2.js:237-259: the request rejects (axios throws on a non-2xx
\* status) or its status is not 200.
ProofRequestRejected(t) ==
    /\ Active(t)
    /\ tasks[t].pc = "request"
    /\ EndRun(t, tasks[t], "requestRejected")
    /\ UNCHANGED <<cfgVars, idleVars, listenerVars, lifeVars, envVars>>

\* relayerV2.js:261-280: the job id is returned; the poll loop is entered.
ProofRequestAccepted(t) ==
    /\ Active(t)
    /\ tasks[t].pc = "request"
    /\ PollOrTimeout(t, tasks[t])
    /\ UNCHANGED <<cfgVars, idleVars, listenerVars, lifeVars, envVars>>

\* relayerV2.js:282, 289-290: the poll answers without a proof; attempts is
\* incremented and the 500 ms timer is awaited.
PollNotReady(t) ==
    /\ Active(t)
    /\ tasks[t].pc = "poll"
    /\ notReadyLeft > 0
    /\ notReadyLeft' = notReadyLeft - 1
    /\ Continue(t, [tasks[t] EXCEPT !.pc = "sleep", !.attempts = @ + 1])
    /\ UNCHANGED <<cfgVars, idleVars, listenerVars, lifeVars, deliveriesLeft, signalsLeft>>

\* relayerV2.js:290, 266: the timer fired.
SleepDone(t) ==
    /\ Active(t)
    /\ tasks[t].pc = "sleep"
    /\ PollOrTimeout(t, tasks[t])
    /\ UNCHANGED <<cfgVars, idleVars, listenerVars, lifeVars, envVars>>

\* Variant of PollFailed: a service error on a poll is taken for a
\* not-ready answer and followed by another poll.
PollFailedRetrying(t) ==
    /\ Active(t)
    /\ tasks[t].pc = "poll"
    /\ Continue(t, [tasks[t] EXCEPT !.pc = "sleep", !.attempts = @ + 1])
    /\ UNCHANGED <<cfgVars, idleVars, listenerVars, lifeVars, envVars>>

\* relayerV2.js:267-280, 294-297: the poll rejects (or its body has no
\* result); getPolymerProof rethrows.
PollFailed(t) ==
    /\ Active(t)
    /\ tasks[t].pc = "poll"
    /\ EndRun(t, tasks[t], "pollError")
    /\ UNCHANGED <<cfgVars, idleVars, listenerVars, lifeVars, envVars>>

\* relayerV2.js:282-286, 178-187: the poll returns a proof; it is decoded,
\* the targets are computed, updateChain is called for each of them and
\* Promise.allSettled is awaited.
PollReady(t) ==
    /\ Active(t)
    /\ tasks[t].pc = "poll"
    /\ LET targets == TargetChains(enabledChains, tasks[t].log.chain) IN
       Join(t, [tasks[t] EXCEPT
                    !.pc = "fanout",
                    !.proof = DecodeProof(ApiProof(tasks[t].request)),
                    !.targets = targets,
                    !.subs = StartUpdates(env, targets),
                    !.sent = Submissions(targets,
                                         DecodeProof(ApiProof(tasks[t].request)))])
    /\ UNCHANGED <<cfgVars, idleVars, listenerVars, lifeVars, envVars>>

InFanout(t, i, sub) ==
    /\ Active(t)
    /\ tasks[t].pc = "fanout"
    /\ i \in DOMAIN tasks[t].subs
    /\ tasks[t].subs[i] = sub

\* relayerV2.js:308-315: invoicesFromSource resolved with the transaction
\* and tx.wait() with its receipt; the updatePromise is fulfilled.
UpdateFulfilled(t, i) ==
    /\ InFanout(t, i, "pending")
    /\ Join(t, [tasks[t] EXCEPT !.subs[i] = "fulfilled"])
    /\ UNCHANGED <<cfgVars, idleVars, listenerVars, lifeVars, envVars>>

\* relayerV2.js:308, 313, 316-318: invoicesFromSource or tx.wait() rejects;
\* the updatePromise is rejected with "Failed to update <name>: ...".
UpdateRejected(t, i) ==
    /\ InFanout(t, i, "pending")
    /\ Join(t, [tasks[t] EXCEPT !.subs[i] = "rejected"])
    /\ UNCHANGED <<cfgVars, idleVars, listenerVars, lifeVars, envVars>>

Next ==
    \/ RelayerInit
    \/ ListenerStarted
    \/ ListenerStartFailed
    \/ Sigint
    \/ ListenerStopped
    \/ \E log \in Logs : Deliver(log)
    \/ \E t \in DOMAIN tasks : CallbackReceiptFailed(t)
    \/ \E t \in DOMAIN tasks : CallbackReceiptReturned(t)
    \/ \E t \in DOMAIN tasks : ProofReceiptFailed(t)
    \/ \E t \in DOMAIN tasks : ProofReceiptReturned(t)
    \/ \E t \in DOMAIN tasks : ProofRequestRejected(t)
    \/ \E t \in DOMAIN tasks : ProofRequestAccepted(t)
    \/ \E t \in DOMAIN tasks : PollNotReady(t)
    \/ \E t \in DOMAIN tasks : SleepDone(t)
    \/ \E t \in DOMAIN tasks : PollFailed(t)
    \/ \E t \in DOMAIN tasks : PollReady(t)
    \/ \E t \in DOMAIN tasks : \E i \in DOMAIN tasks[t].subs : UpdateFulfilled(t, i)
    \/ \E t \in DOMAIN tasks : \E i \in DOMAIN tasks[t].subs : UpdateRejected(t, i)

Spec == Init /\ [][Next]_vars

\* The external call the invocation t is suspended at (receipt lookup, proof
\* request, poll, timer, submission or confirmation wait of a target)
\* returns or fails.
External(t) ==
    /\ t \in DOMAIN tasks
    /\ \/ CallbackReceiptFailed(t)
       \/ CallbackReceiptReturned(t)
       \/ ProofReceiptFailed(t)
       \/ ProofReceiptReturned(t)
       \/ ProofRequestRejected(t)
       \/ ProofRequestAccepted(t)
       \/ PollNotReady(t)
       \/ SleepDone(t)
       \/ PollFailed(t)
       \/ PollReady(t)
       \/ \E i \in DOMAIN tasks[t].subs : UpdateFulfilled(t, i)
       \/ \E i \in DOMAIN tasks[t].subs : UpdateRejected(t, i)

\* Every external call an invocation awaits eventually settles.
Fairness == \A t \in 1..MaxDeliveries : WF_vars(External(t))

\* The initial states with one configuration (a target chain without
\* contract address), in the environments in which the proof API may answer
\* "not ready" (a signal may arrive, or the proof is never ready).
InitFair == Init /\ env = NoAddrEnv /\ notReadyLeft > 0

SpecFair == InitFair /\ [][Next]_vars /\ Fairness

\* ------------------------------------------- a client of the listener API
\* The state after a successful Relayer.init() (relayerV2.js:120-137), with
\* no log delivered: a client then calls start() and stop() on the
\* listeners, in any order and without waiting for an earlier call.
InitListener ==
    /\ env \in {FullEnv, NoAddrEnv}
    /\ enabledChains = getEnabledChains(env)
    /\ listeners = BuildListeners(env, enabledChains, <<>>).listeners
    /\ isListening = [c \in PrefixedKeys |-> FALSE]
    /\ subscriptions = [c \in PrefixedKeys |-> 0]
    /\ processedEvents = [c \in PrefixedKeys |-> {}]
    /\ processingEvents = {}
    /\ tasks = <<>>
    /\ deliveriesLeft = 1
    /\ notReadyLeft = 0
    /\ signalsLeft = 0
    /\ mainPc = "initialized"
    /\ startIdx = 0
    /\ sigPc = "none"
    /\ stopIdx = 0
    /\ exited = "no"
    /\ abandoned = {}
    /\ pendingCalls = [c \in PrefixedKeys |-> [start |-> 0, stop |-> 0]]
    /\ callLog = <<>>
    /\ Deployed
    /\ txsLeft = 0

\* What a call on a listener leaves alone.
relayerVars == <<cfgVars, abandoned, listeners, processedEvents,
                 processingEvents, tasks, envVars, lifeVars, contractVars>>

\* A call on the listener of c is made while another one is suspended.
Overlaps(c) == pendingCalls[c].start + pendingCalls[c].stop > 0

\* relayerV2.js:48-56: start() is called on the listener of c; it returns at
\* once if the listener is listening (49), else it is suspended at
\* `await this.provider.getBlockNumber()`.
StartCalled(c) ==
    /\ Len(callLog) < MaxCalls
    /\ c \in SeqToSet(listeners)
    /\ LET atOnce == NextToStart(<<c>>, isListening, 1) > 1 IN
       /\ pendingCalls' = IF atOnce THEN pendingCalls
                          ELSE [pendingCalls EXCEPT ![c].start = @ + 1]
       /\ callLog' = Append(callLog, [op |-> "start", chain |-> c,
                                      atOnce |-> atOnce, overlap |-> Overlaps(c)])
    /\ UNCHANGED <<relayerVars, isListening, subscriptions>>

\* relayerV2.js:56-90: getBlockNumber resolved: the callback is registered
\* and isListening is set.
StartResolved(c) ==
    /\ pendingCalls[c].start > 0
    /\ pendingCalls' = [pendingCalls EXCEPT ![c].start = @ - 1]
    /\ subscriptions' = Subscribe(subscriptions, c)
    /\ isListening' = [isListening EXCEPT ![c] = TRUE]
    /\ UNCHANGED <<relayerVars, callLog>>

\* relayerV2.js:56: getBlockNumber rejects and so does start().
StartRejected(c) ==
    /\ pendingCalls[c].start > 0
    /\ pendingCalls' = [pendingCalls EXCEPT ![c].start = @ - 1]
    /\ UNCHANGED <<relayerVars, callLog, isListening, subscriptions>>

\* relayerV2.js:92-94: stop() is called on the listener of c; it returns at
\* once if the listener is not listening (93), else it is suspended at
\* `await this.contract.removeAllListeners()`.
StopCalled(c) ==
    /\ Len(callLog) < MaxCalls
    /\ c \in SeqToSet(listeners)
    /\ LET atOnce == NextToStop(<<c>>, isListening, 1) > 1 IN
       /\ pendingCalls' = IF atOnce THEN pendingCalls
                          ELSE [pendingCalls EXCEPT ![c].stop = @ + 1]
       /\ callLog' = Append(callLog, [op |-> "stop", chain |-> c,
                                      atOnce |-> atOnce, overlap |-> Overlaps(c)])
    /\ UNCHANGED <<relayerVars, isListening, subscriptions>>

\* relayerV2.js:94-96: removeAllListeners resolved: the subscription is gone
\* and isListening is cleared.
StopResolved(c) ==
    /\ pendingCalls[c].stop > 0
    /\ pendingCalls' = [pendingCalls EXCEPT ![c].stop = @ - 1]
    /\ subscriptions' = Unsubscribe(subscriptions, c)
    /\ isListening' = [isListening EXCEPT ![c] = FALSE]
    /\ UNCHANGED <<relayerVars, callLog>>

NextListener ==
    \/ \E c \in PrefixedKeys : StartCalled(c)
    \/ \E c \in PrefixedKeys : StartResolved(c)
    \/ \E c \in PrefixedKeys : StartRejected(c)
    \/ \E c \in PrefixedKeys : StopCalled(c)
    \/ \E c \in PrefixedKeys : StopResolved(c)
    \/ \E log \in Logs : Deliver(log)

SpecListener == InitListener /\ [][NextListener]_vars

\* ------------------------------------------ InvoiceIDBatcher transactions
Senders == {Deployer, "user"}
SourceContracts == {ZeroAddress, "batcherOP", "batcherARB"}
InvoiceHashes == {ZeroHash, "h1", "h2"}

\* The byte strings submitted as proofs.
Proofs == {"pBatch", "pBatchAgain", "pRogue", "pSelf", "pUntrusted", "pNewInvoice", "pInvalid"}

\* The event log a proof attests.
EventLog(chain, emitter, topics, data) ==
    [ok |-> TRUE, chainId |-> chain, emittingContract |-> emitter,
     topics |-> topics, data |-> data]

BatchData(invoices) == [type |-> "bytes32[]", items |-> invoices]
NoData == [type |-> "empty", items |-> <<>>]

\* invoiceIDBatcher.sol:19-29  IPolymerProver.validateEvent: what the prover
\* returns for each proof, or a revert.  pBatch and pBatchAgain are two
\* proofs of one InvoiceBatch event of the trusted batcher on
\* optimism-sepolia; pRogue is of a batch event of another contract there;
\* pSelf of a batch event on the contract's own chain; pUntrusted of one on
\* arbitrum-sepolia; pNewInvoice of a NewInvoice event of the trusted batcher.
validateEvent(proof) ==
    CASE proof \in {"pBatch", "pBatchAgain"} ->
            EventLog("optimism-sepolia", "batcherOP",
                     <<"InvoiceBatch", "alice">>, BatchData(<<"h1", "h2">>))
      [] proof = "pRogue" ->
            EventLog("optimism-sepolia", "rogue",
                     <<"InvoiceBatch", "mallory">>, BatchData(<<"h1">>))
      [] proof = "pSelf" ->
            EventLog(ContractChain, "batcherOP",
                     <<"InvoiceBatch", "alice">>, BatchData(<<"h2">>))
      [] proof = "pUntrusted" ->
            EventLog("arbitrum-sepolia", "batcherARB",
                     <<"InvoiceBatch", "bob">>, BatchData(<<"h2">>))
      [] proof = "pNewInvoice" ->
            EventLog("optimism-sepolia", "batcherOP",
                     <<"NewInvoice", "alice", "h1">>, NoData)
      [] OTHER -> [ok |-> FALSE]

\* invoiceIDBatcher.sol:153  keccak256(abi.encodePacked(proof))
Keccak(proof) == <<"keccak256", proof>>

\* invoiceIDBatcher.sol:158  abi.decode(data, (bytes32[])) reverts on data
\* that is not the encoding of an array.
Decodes(data) == data.type = "bytes32[]"

\* The storage as one value.
Storage ==
    [admin |-> admin, pendingInvoices |-> pendingInvoices,
     usedProofHashes |-> usedProofHashes,
     trustedSourceContracts |-> trustedSourceContracts]

Revert(reason) == [reverted |-> TRUE, reason |-> reason]
Success(st, events) == [reverted |-> FALSE, st |-> st, events |-> events]

\* Variant of setTrustedSourceContract: the check of the chain id omitted.
setTrustedSourceContractAnyChain(st, sender, chainId, sourceContract) ==
    IF sender /= st.admin THEN Revert("Only admin can set trusted sources")
    ELSE IF sourceContract = ZeroAddress THEN Revert("Invalid source contract address")
    ELSE Success([st EXCEPT !.trustedSourceContracts[chainId] = sourceContract], <<>>)

\* Variant of setTrustedSourceContract: the admin check omitted.
setTrustedSourceContractByAnyone(st, sender, chainId, sourceContract) ==
    IF chainId = ContractChain THEN Revert("Cannot set source for current chain")
    ELSE IF sourceContract = ZeroAddress THEN Revert("Invalid source contract address")
    ELSE Success([st EXCEPT !.trustedSourceContracts[chainId] = sourceContract], <<>>)

\* invoiceIDBatcher.sol:93-98
setTrustedSourceContract(st, sender, chainId, sourceContract) ==
    IF sender /= st.admin THEN Revert("Only admin can set trusted sources")
    ELSE IF chainId = ContractChain THEN Revert("Cannot set source for current chain")
    ELSE IF sourceContract = ZeroAddress THEN Revert("Invalid source contract address")
    ELSE Success([st EXCEPT !.trustedSourceContracts[chainId] = sourceContract], <<>>)

\* invoiceIDBatcher.sol:105-109
newInvoice(st, sender, invoiceHash) ==
    IF invoiceHash = ZeroHash THEN Revert("Invalid invoice hash")
    ELSE Success([st EXCEPT !.pendingInvoices = Append(@, invoiceHash)],
                 <<[name |-> "NewInvoice", sender |-> sender, invoiceHash |-> invoiceHash]>>)

\* Variant of batchInvoices: the pending array is not cleared.
batchInvoicesKeeping(st, sender) ==
    IF ~(Len(st.pendingInvoices) > 0) THEN Revert("No pending invoices")
    ELSE Success(st, <<[name |-> "InvoiceBatch", sender |-> sender,
                        invoices |-> st.pendingInvoices]>>)

\* invoiceIDBatcher.sol:116-130
batchInvoices(st, sender) ==
    IF ~(Len(st.pendingInvoices) > 0) THEN Revert("No pending invoices")
    ELSE LET currentBatch == [i \in 1..Len(st.pendingInvoices) |-> st.pendingInvoices[i]] IN
         Success([st EXCEPT !.pendingInvoices = <<>>],
                 <<[name |-> "InvoiceBatch", sender |-> sender, invoices |-> currentBatch]>>)

\* invoiceIDBatcher.sol:178-180
getPendingInvoicesCount(st) == Len(st.pendingInvoices)

\* Variant of IsTrustedSource: any contract of a chain with a configured
\* source is accepted.
IsConfiguredChain(trusted, chainId, sourceContract) ==
    /\ chainId /= ContractChain
    /\ trusted[chainId] /= ZeroAddress

\* invoiceIDBatcher.sol:148-150  the three requires on the proof's origin
IsTrustedSource(trusted, chainId, sourceContract) ==
    /\ chainId /= ContractChain
    /\ trusted[chainId] /= ZeroAddress
    /\ sourceContract = trusted[chainId]

\* Variant of IsUsed: the lookup always misses.
IsNeverUsed(used, proofHash) == FALSE

\* invoiceIDBatcher.sol:154  usedProofHashes[proofHash]
IsUsed(used, proofHash) == proofHash \in used

\* invoiceIDBatcher.sol:138-172.  A revert at any point, the decoding at
\* line 158 included, undoes the write of line 155.
invoicesFromSource(st, proof) ==
    LET v == validateEvent(proof) IN
    IF ~v.ok THEN Revert("validateEvent reverted")
    ELSE IF ~IsTrustedSource(st.trustedSourceContracts, v.chainId, v.emittingContract)
    THEN Revert(IF v.chainId = ContractChain THEN "Cannot process events from same chain"
                ELSE IF st.trustedSourceContracts[v.chainId] = ZeroAddress
                THEN "Chain not trusted" ELSE "Invalid source contract")
    ELSE IF IsUsed(st.usedProofHashes, Keccak(proof)) THEN Revert("Proof already used")
    ELSE IF ~Decodes(v.data) THEN Revert("abi.decode reverted")
    ELSE LET invoices == v.data.items
             sender == v.topics[2] IN
         Success([st EXCEPT !.usedProofHashes = @ \cup {Keccak(proof)}],
                 [i \in 1..Len(invoices) |->
                     [name |-> "InvoiceReceived", originalSender |-> sender,
                      invoiceHash |-> invoices[i]]])

\* A transaction calling fn with arg is mined: a revert leaves the storage
\* and the event log as they were.
Transact(fn, sender, arg, r) ==
    /\ txsLeft > 0
    /\ txsLeft' = txsLeft - 1
    /\ IF r.reverted
       THEN /\ lastTx' = [fn |-> fn, sender |-> sender, arg |-> arg,
                          reverted |-> TRUE, reason |-> r.reason]
            /\ UNCHANGED <<storageVars, txLog>>
       ELSE /\ lastTx' = [fn |-> fn, sender |-> sender, arg |-> arg,
                          reverted |-> FALSE, reason |-> ""]
            /\ admin' = r.st.admin
            /\ pendingInvoices' = r.st.pendingInvoices
            /\ usedProofHashes' = r.st.usedProofHashes
            /\ trustedSourceContracts' = r.st.trustedSourceContracts
            /\ txLog' = Append(txLog, [fn |-> fn, sender |-> sender, arg |-> arg,
                                       events |-> r.events])
    /\ UNCHANGED <<cfgVars, abandoned, harnessVars, listenerVars, processedEvents,
                   processingEvents, tasks, envVars, lifeVars>>

SetTrustedSourceContractTx(sender, chainId, sourceContract) ==
    Transact("setTrustedSourceContract", sender, <<chainId, sourceContract>>,
             setTrustedSourceContract(Storage, sender, chainId, sourceContract))

NewInvoiceTx(sender, invoiceHash) ==
    Transact("newInvoice", sender, invoiceHash, newInvoice(Storage, sender, invoiceHash))

BatchInvoicesTx(sender) ==
    Transact("batchInvoices", sender, <<>>, batchInvoices(Storage, sender))

InvoicesFromSourceTx(sender, proof) ==
    Transact("invoicesFromSource", sender, proof, invoicesFromSource(Storage, proof))

\* A contract freshly deployed on base-sepolia; the relayer plays no part.
InitContract ==
    /\ env = FullEnv
    /\ enabledChains = getEnabledChains(env)
    /\ listeners = <<>>
    /\ isListening = [c \in PrefixedKeys |-> FALSE]
    /\ subscriptions = [c \in PrefixedKeys |-> 0]
    /\ processedEvents = [c \in PrefixedKeys |-> {}]
    /\ processingEvents = {}
    /\ tasks = <<>>
    /\ deliveriesLeft = 0
    /\ notReadyLeft = 0
    /\ signalsLeft = 0
    /\ mainPc = "new"
    /\ startIdx = 0
    /\ sigPc = "none"
    /\ stopIdx = 0
    /\ exited = "no"
    /\ abandoned = {}
    /\ pendingCalls = [c \in PrefixedKeys |-> [start |-> 0, stop |-> 0]]
    /\ callLog = <<>>
    /\ Deployed
    /\ txsLeft = MaxTxs

NextContract ==
    \/ \E sender \in Senders, chainId \in ChainIds, sourceContract \in SourceContracts :
          SetTrustedSourceContractTx(sender, chainId, sourceContract)
    \/ \E invoiceHash \in InvoiceHashes : NewInvoiceTx("user", invoiceHash)
    \/ BatchInvoicesTx("user")
    \/ \E proof \in Proofs : InvoicesFromSourceTx("user", proof)

SpecContract == InitContract /\ [][NextContract]_vars

\* ================================================================== claims
SameTicket(t1, t2) == TicketId(tasks[t1].log) = TicketId(tasks[t2].log)

\* The outcomes of a run that ended without a proof.
AcquisitionFailures ==
    {"receiptMissing", "logNotFound", "requestRejected", "pollError", "timeout"}

\* C1: for every event id (sourceChainId, transactionHash) at most one
\* handleEvent invocation is between ticket creation and ticket removal, and
\* an invocation that found a ticket for its id returned at once: it sent no
\* proof request, no poll and no submission, and never held the ticket.
C1_AtMostOneRun ==
    /\ \A t1, t2 \in DOMAIN tasks :
          Running(t1) /\ Running(t2) /\ SameTicket(t1, t2) => t1 = t2
    /\ \A t \in DOMAIN tasks :
          tasks[t].outcome = "skipInFlight" =>
             /\ ~tasks[t].owner
             /\ tasks[t].requests = 0 /\ tasks[t].polls = 0
             /\ tasks[t].targets = <<>> /\ tasks[t].subs = <<>>

\* C1 witness: a handleEvent call was discarded while the run holding the
\* ticket of its id is still in progress.
C1_Witness ==
    \E t1, t2 \in DOMAIN tasks :
       /\ Running(t1) /\ tasks[t1].requests = 1
       /\ tasks[t2].outcome = "skipInFlight" /\ SameTicket(t1, t2)

\* C2: the in-flight map contains an id only while a handleEvent run for
\* that id is active: every run that ended, on whatever path, removed its
\* ticket, so a later handleEvent call for the id finds none.
C2_TicketRelease ==
    /\ \A id \in processingEvents :
          \E t \in DOMAIN tasks : Running(t) /\ TicketId(tasks[t].log) = id
    /\ \A t \in DOMAIN tasks :
          tasks[t].owner /\ tasks[t].pc = "done" =>
             \/ TicketId(tasks[t].log) \notin processingEvents
             \/ \E u \in DOMAIN tasks : Running(u) /\ SameTicket(t, u)

\* C2 witness: a run that failed to acquire a proof has ended, its ticket is
\* gone, and a later handleEvent call for the same id is a full new run.
C2_Witness ==
    \E t1, t2 \in DOMAIN tasks :
       /\ t1 < t2 /\ SameTicket(t1, t2)
       /\ tasks[t1].owner /\ tasks[t1].pc = "done"
       /\ tasks[t1].outcome \in AcquisitionFailures
       /\ tasks[t2].owner /\ tasks[t2].outcome = "completed"

\* C3: a log delivered to a listener while its event identity is recorded
\* as processed, or while a run of that identity is in flight, never leads
\* to a second proof request or a second fan-out for that event identity.
C3_DuplicateSuppression ==
    \A t1, t2 \in DOMAIN tasks :
       /\ t1 < t2 /\ tasks[t1].log = tasks[t2].log
       /\ tasks[t2].outcome = "skipProcessed" \/ tasks[t2].duringRun
       => /\ ~(tasks[t1].requests >= 1 /\ tasks[t2].requests >= 1)
          /\ ~(tasks[t1].targets /= <<>> /\ tasks[t2].targets /= <<>>)

\* C4 as stated: once the run of an event has ended, a later delivery of the
\* identical event through the same listener is processed as a new attempt,
\* i.e. it is not discarded as already processed.
C4_ReprocessedAsNew ==
    \A t1, t2 \in DOMAIN tasks :
       /\ t1 < t2 /\ tasks[t1].log = tasks[t2].log
       /\ tasks[t1].owner /\ tasks[t1].pc = "done"
       => tasks[t2].outcome /= "skipProcessed"

\* C4 as amended: a delivery is discarded by the listener exactly when its
\* identity (blockHash, transactionHash, logIndex) is recorded in the
\* listener's processedEvents; a delivery that is not discarded and whose
\* receipt lookup succeeds starts a new run (ticket created, proof
\* acquisition begun) exactly when no ticket exists for (chain, txHash).
C4_NewRunUnlessRecorded ==
    [][ /\ \A t \in DOMAIN tasks' :
             t \notin DOMAIN tasks =>
                LET log == tasks'[t].log IN
                IF ListenerEventId(log) \in processedEvents[log.chain]
                THEN tasks'[t].pc = "done" /\ tasks'[t].outcome = "skipProcessed"
                ELSE tasks'[t].pc = "cbReceipt"
        /\ \A t \in DOMAIN tasks \cap DOMAIN tasks' :
             /\ tasks[t].pc = "cbReceipt" /\ tasks'[t].pc /= "cbReceipt"
             /\ tasks'[t].outcome /= "cbError"
             => IF TicketId(tasks[t].log) \in processingEvents
                THEN tasks'[t].outcome = "skipInFlight"
                ELSE /\ tasks'[t].owner /\ tasks'[t].pc = "proofReceipt"
                     /\ TicketId(tasks[t].log) \in processingEvents'
      ]_vars

\* C4 witness: the run of one batch event has completed and a later event of
\* the same chain and transaction hash, with another log index, is in a run
\* of its own that has sent its proof request.
C4_Witness ==
    \E t1, t2 \in DOMAIN tasks :
       /\ t1 < t2 /\ SameTicket(t1, t2) /\ tasks[t1].log /= tasks[t2].log
       /\ tasks[t1].outcome = "completed"
       /\ ListenerEventId(tasks[t1].log) \in processedEvents[tasks[t1].log.chain]
       /\ Running(t2) /\ tasks[t2].requests = 1

\* C5: a run that acquired a proof ends as completed, and its aggregated
\* result has one entry per target chain (registry minus source), in target
\* order, each attributed to its target and reporting that target's own
\* submission: M failures and N - M successes for M failed submissions.
C5_FanOutIsolation ==
    \A t \in DOMAIN tasks :
       LET r == tasks[t]
           expected == SelectSeq(enabledChains, LAMBDA c : c /= r.log.chain)
           N == Len(expected)
           failed == {i \in DOMAIN r.subs : r.subs[i] \in {"rejected", "rejectedCtor"}} IN
       /\ r.pc = "done" /\ r.proof /= NoProof => r.outcome = "completed"
       /\ r.outcome = "completed" =>
            /\ Len(r.subs) = N /\ Len(r.results) = N
            /\ \A i \in 1..N :
                  /\ r.results[i].chain = expected[i]
                  /\ r.results[i].status \in {"fulfilled", "rejected"}
                  /\ r.results[i].status = "rejected" <=> i \in failed
            /\ Cardinality({i \in 1..N : r.results[i].status = "rejected"})
                  = Cardinality(failed)
            /\ Cardinality({i \in 1..N : r.results[i].status = "fulfilled"})
                  = N - Cardinality(failed)

\* C5 witness: two targets, one submission failed and one succeeded, both
\* reported.
C5_Witness ==
    \E t \in DOMAIN tasks :
       /\ tasks[t].outcome = "completed" /\ Len(tasks[t].results) = 2
       /\ tasks[t].subs = <<"rejected", "fulfilled">>
       /\ tasks[t].results[1].status = "rejected"
       /\ tasks[t].results[2].status = "fulfilled"

\* C6: while a run is in its fan-out every target's submission has been
\* started, nothing is reported and the ticket is held; the phase is over
\* (results reported, ticket removed) only with every submission settled.
C6_WaitForAll ==
    \A t \in DOMAIN tasks :
       LET r == tasks[t] IN
       /\ r.pc = "fanout" =>
            /\ DOMAIN r.subs = DOMAIN r.targets
            /\ \A i \in DOMAIN r.subs :
                  r.subs[i] \in {"pending", "fulfilled", "rejected", "rejectedCtor"}
            /\ r.results = <<>>
            /\ TicketId(r.log) \in processingEvents
       /\ r.owner /\ r.pc = "done" /\ r.targets /= <<>> =>
            \A i \in DOMAIN r.subs :
               r.subs[i] \in {"fulfilled", "rejected", "rejectedCtor"}

\* C6 witness: one submission of a run has failed while another is still
\* pending, and the run is still in its fan-out.
C6_Witness ==
    \E t \in DOMAIN tasks :
       /\ tasks[t].pc = "fanout"
       /\ tasks[t].subs = <<"rejected", "pending">>

\* C7: in every run that acquired a proof, updateChain is called for exactly
\* the enabled chains other than the source, and the chains that receive an
\* invoicesFromSource call are exactly the registered chains (enabled, with
\* a contract address) other than the source.
C7_TargetSet ==
    \A t \in DOMAIN tasks :
       LET r == tasks[t]
           called == {r.targets[i] : i \in {j \in DOMAIN r.subs : r.subs[j] /= "rejectedCtor"}} IN
       r.proof /= NoProof =>
          /\ SeqToSet(r.targets) = SeqToSet(enabledChains) \ {r.log.chain}
          /\ called = (SeqToSet(enabledChains) \cap env.addr) \ {r.log.chain}
          /\ r.log.chain \notin SeqToSet(r.targets)

\* C7 witness: a run from optimism-sepolia submits to the two other chains.
C7_Witness ==
    \E t \in DOMAIN tasks :
       /\ tasks[t].pc = "fanout"
       /\ tasks[t].log.chain = "optimism-sepolia"
       /\ tasks[t].subs = <<"pending", "pending">>
       /\ SeqToSet(tasks[t].targets) = {"arbitrum-sepolia", "base-sepolia"}

\* C8: a getPolymerProof call sends at most 120 log_queryProof polls; after
\* the 120th poll without proof it sends no other and fails with a timeout,
\* and a timeout is raised only after 120 polls.
C8_PollBounded ==
    \A t \in DOMAIN tasks :
       LET r == tasks[t] IN
       /\ r.polls <= 120 /\ r.attempts <= 120
       /\ r.attempts = 120 => r.pc = "sleep" \/ (r.pc = "done" /\ r.outcome = "timeout")
       /\ r.outcome = "timeout" => r.polls = 120 /\ r.attempts = 120 /\ r.proof = NoProof

\* C8 witness: a run has timed out after 120 polls.
C8_Witness ==
    \E t \in DOMAIN tasks :
       tasks[t].outcome = "timeout" /\ tasks[t].polls = 120

\* C9: a run whose proof acquisition failed has called updateChain for no
\* chain, reported no result, holds no proof, and its ticket is removed.
C9_NoDispatchWithoutProof ==
    \A t \in DOMAIN tasks :
       LET r == tasks[t] IN
       /\ r.outcome \in AcquisitionFailures =>
            /\ r.pc = "done" /\ r.proof = NoProof
            /\ r.targets = <<>> /\ r.subs = <<>> /\ r.results = <<>>
            /\ \/ TicketId(r.log) \notin processingEvents
               \/ \E u \in DOMAIN tasks : u /= t /\ Running(u) /\ SameTicket(t, u)
       /\ r.targets /= <<>> => r.proof /= NoProof

\* C9 witness: a run failed on a poll error after a not-ready answer, with
\* its ticket removed and nothing dispatched.
C9_Witness ==
    \E t \in DOMAIN tasks :
       /\ tasks[t].outcome = "pollError" /\ tasks[t].polls = 2
       /\ TicketId(tasks[t].log) \notin processingEvents

\* C10 as stated: a run in progress when the shutdown signal is handled is
\* not cancelled, so the process never exits on the signal with a run that
\* has not reached its end.
C10_NoRunCancelled ==
    [][exited = "no" /\ exited' = "sigint" =>
          \A t \in DOMAIN tasks : ~Running(t)]_vars

\* C10 as amended: Relayer.stop() cancels nothing: the steps of the shutdown
\* (handling the signal, each listener's removal) leave every invocation and
\* every ticket as they are, and a run in progress is dropped by no step but
\* the process exit that follows stop().
C10_OnlyExitCancels ==
    [][ /\ (sigPc' /= sigPc \/ stopIdx' /= stopIdx) /\ exited' = "no" =>
             tasks' = tasks /\ processingEvents' = processingEvents
        /\ \A t \in DOMAIN tasks :
             Running(t) /\ exited' = "no" =>
                /\ t \in DOMAIN tasks'
                /\ tasks'[t].log = tasks[t].log
                /\ tasks'[t].owner
                /\ tasks'[t].pc /= "done" => TicketId(tasks[t].log) \in processingEvents'
      ]_vars

\* C10 witness: the shutdown is in progress, the listener of a run's source
\* chain is already removed, and that run is still polling or fanning out.
C10_Witness ==
    /\ sigPc = "stopping"
    /\ \E t \in DOMAIN tasks :
          /\ Running(t) /\ tasks[t].pc \in {"poll", "sleep", "fanout"}
          /\ subscriptions[tasks[t].log.chain] = 0

\* The SIGINT handler is past its `await relayer.stop()`.
StopCompleted == sigPc \notin {"none", "stopping"} /\ exited /= "error"

\* C11: once Relayer.stop() has completed no listener holds a subscription
\* or is listening, and from then on no handleEvent run is started: no
\* invocation of the callback, delivered before or after, becomes the owner
\* of a ticket.
C11_NoRunAfterStop ==
    /\ [](StopCompleted =>
            \A c \in PrefixedKeys : subscriptions[c] = 0 /\ ~isListening[c])
    /\ [][StopCompleted =>
            \A t \in DOMAIN tasks' :
               tasks'[t].owner => t \in DOMAIN tasks /\ tasks[t].owner]_vars

\* C11 witness: stop() has completed while a callback invoked before it was
\* still waiting on its receipt lookup.
C11_Witness == exited = "sigint" /\ "cbReceipt" \in abandoned

\* An invocation that ended on an error: the listener's receipt lookup, the
\* proof acquisition, or the submission to some target.
Failed(r) ==
    /\ r.pc = "done"
    /\ \/ r.outcome = "cbError"
       \/ r.outcome \in AcquisitionFailures
       \/ r.outcome = "completed" /\
             \E i \in DOMAIN r.results : r.results[i].status = "rejected"

\* C12: the step in which an invocation ends on an error changes no
\* listener (subscription, isListening), leaves no ticket of that invocation
\* and does not end the process, which ends only on a startup failure or on
\* SIGINT; a delivery is discarded as already processed only if an earlier
\* invocation for the identical log returned from the orchestrator, so an
\* event of another identity is still handed on.
C12_ErrorContained ==
    /\ [][ /\ \A t \in DOMAIN tasks :
                tasks[t].pc /= "done" /\ exited' = "no" /\ Failed(tasks'[t]) =>
                   /\ listeners' = listeners
                   /\ subscriptions' = subscriptions
                   /\ isListening' = isListening
                   /\ processingEvents' = processingEvents \
                         (IF tasks[t].owner THEN {TicketId(tasks[t].log)} ELSE {})
           /\ exited = "no" /\ exited' = "error" => mainPc \in {"new", "starting"}
           /\ exited = "no" /\ exited' = "sigint" =>
                 sigPc = "stopping" \/ (sigPc = "none" /\ signalsLeft > 0)
         ]_vars
    /\ [](\A t2 \in DOMAIN tasks :
            tasks[t2].outcome = "skipProcessed" =>
               \E t1 \in DOMAIN tasks :
                  /\ t1 < t2 /\ tasks[t1].log = tasks[t2].log
                  /\ tasks[t1].pc = "done" /\ tasks[t1].outcome /= "cbError")

\* C12 witness: a run failed to acquire its proof, and an event of another
\* identity delivered through the same listener is in a run of its own that
\* has sent its proof request.
C12_Witness ==
    \E t1, t2 \in DOMAIN tasks :
       /\ Failed(tasks[t1]) /\ tasks[t1].outcome \in AcquisitionFailures
       /\ tasks[t1].log /= tasks[t2].log /\ SameTicket(t1, t2)
       /\ Running(t2) /\ tasks[t2].requests = 1
       /\ subscriptions[tasks[t1].log.chain] = 1

\* The elements of a sequence in the order of their first occurrence.
RECURSIVE Distinct(_)
Distinct(s) ==
    IF s = <<>> THEN <<>>
    ELSE LET d == Distinct(SubSeq(s, 1, Len(s) - 1)) IN
         IF s[Len(s)] \in SeqToSet(d) THEN d ELSE Append(d, s[Len(s)])

\* The enabled chains that have both an RPC endpoint and a contract address.
Listenable ==
    Distinct(SelectSeq(enabledChains, LAMBDA c : c \in env.rpc /\ c \in env.addr))

\* C13: init() leaves one listener for each enabled chain that has an RPC
\* endpoint and a contract address, in registry order, and none for any
\* other chain; it fails, ending the process, exactly when there is no such
\* chain, and listeners are never added or removed afterwards.
C13_InitListeners ==
    [][ /\ mainPc = "new" =>
             /\ exited' = "error" <=> Listenable = <<>>
             /\ exited' = "no" =>
                   /\ listeners' = Listenable
                   /\ \A c \in SeqToSet(Listenable) :
                         Cardinality({i \in DOMAIN listeners' : listeners'[i] = c}) = 1
        /\ mainPc /= "new" /\ exited' = "no" => listeners' = listeners
      ]_vars

\* C13 witness: init() has skipped the chain without contract address and
\* built the listeners of the two other chains; start() is under way.
C13_Witness ==
    /\ env = NoAddrEnv /\ mainPc = "starting"
    /\ listeners = <<"optimism-sepolia", "base-sepolia">>

\* The chains of CHAINS for which every required field is configured.
Complete == {c \in ChainKeys : c \in env.rpc /\ c \in env.addr /\ c \in env.prover}

\* C16: only a chain that is activated and has an RPC endpoint, a contract
\* address and a prover address has a listener or is a fan-out target of a
\* run, and with no such chain the process does not start.
C16_ActiveSet ==
    /\ SeqToSet(listeners) \subseteq Complete \cap SeqToSet(env.activated)
    /\ \A t \in DOMAIN tasks :
          SeqToSet(tasks[t].targets) \subseteq Complete \cap SeqToSet(env.activated)
    /\ Complete \cap SeqToSet(env.activated) = {} => mainPc \in {"new", "exited"}

\* C17: an invocation of the orchestrator is discarded only as a duplicate:
\* whenever a delivery was dropped because of a ticket, a run exists for
\* that very event identity (chain, transaction hash, log index).
C17_EveryEventRelayed ==
    \A t \in DOMAIN tasks :
       tasks[t].outcome = "skipInFlight" =>
          \E u \in DOMAIN tasks : tasks[u].log = tasks[t].log /\ tasks[u].owner

\* The calls made on the listener of c did not overlap.
Sequential(c) ==
    \A i \in DOMAIN callLog : callLog[i].chain = c => ~callLog[i].overlap

\* The positions in callLog of the calls of `op` on the listener of c.
CallsOf(op, c) ==
    {i \in DOMAIN callLog : callLog[i].op = op /\ callLog[i].chain = c}

\* C14: a start() call on a listener that is listening returns at once and
\* changes nothing (no subscription added, no flag changed), and however
\* many start() and stop() calls are made one after the other on a listener,
\* it holds one subscription while listening and none otherwise.
C14_StartIdempotent ==
    /\ [][ Len(callLog') > Len(callLog) /\ callLog'[Len(callLog')].op = "start"
           /\ isListening[callLog'[Len(callLog')].chain] =>
              /\ callLog'[Len(callLog')].atOnce
              /\ UNCHANGED <<listenerVars, pendingCalls, relayerVars>>
         ]_vars
    /\ [](\A c \in PrefixedKeys :
            Sequential(c) =>
               /\ subscriptions[c] = IF isListening[c] THEN 1 ELSE 0
               /\ pendingCalls[c].start > 0 => ~isListening[c])

\* C14 witness: two start() calls were made one after the other on a
\* listener, the second returned at once, and there is one subscription.
C14_Witness ==
    \E c \in PrefixedKeys :
       /\ Sequential(c) /\ CallsOf("stop", c) = {}
       /\ \E i, j \in CallsOf("start", c) :
             i < j /\ ~callLog[i].atOnce /\ callLog[j].atOnce
       /\ isListening[c] /\ subscriptions[c] = 1

\* C15: a stop() call on a listener that is not listening returns at once
\* and changes nothing; a stop() on a listening listener ends with the
\* subscription removed and isListening cleared, so that a second stop()
\* made after it finds nothing to do.
C15_StopIdempotent ==
    /\ [][ /\ Len(callLog') > Len(callLog) /\ callLog'[Len(callLog')].op = "stop"
              /\ ~isListening[callLog'[Len(callLog')].chain] =>
                 /\ callLog'[Len(callLog')].atOnce
                 /\ UNCHANGED <<listenerVars, pendingCalls, relayerVars>>
           /\ \A c \in PrefixedKeys :
                 pendingCalls'[c].stop < pendingCalls[c].stop =>
                    subscriptions'[c] = 0 /\ ~isListening'[c]
         ]_vars
    /\ [](\A c \in PrefixedKeys :
            Sequential(c) /\ pendingCalls[c].stop > 0 =>
               isListening[c] /\ pendingCalls[c].stop = 1)

\* C15 witness: a listener was started and then stopped twice, one call
\* after the other; the second stop() returned at once.
C15_Witness ==
    \E c \in PrefixedKeys :
       /\ Sequential(c) /\ CallsOf("start", c) /= {}
       /\ \E i, j \in CallsOf("stop", c) :
             i < j /\ ~callLog[i].atOnce /\ callLog[j].atOnce
       /\ ~isListening[c] /\ subscriptions[c] = 0
       /\ pendingCalls[c] = [start |-> 0, stop |-> 0]

\* A transaction calling fn is mined in this step.
Mined(fn) == txsLeft' < txsLeft /\ lastTx'.fn = fn

\* The events of `name` emitted so far, in order.
RECURSIVE EventsOf(_, _)
EventsOf(name, log) ==
    IF log = <<>> THEN <<>>
    ELSE SelectSeq(Head(log).events, LAMBDA e : e.name = name)
         \o EventsOf(name, Tail(log))

\* The successful invoicesFromSource calls made with `proof`.
Receptions(proof) ==
    {i \in DOMAIN txLog : txLog[i].fn = "invoicesFromSource" /\ txLog[i].arg = proof}

\* C18: invoicesFromSource succeeds at most once for a given proof: a call
\* with a proof whose hash is marked used reverts, emits no event and
\* changes no storage, a successful call marks its proof's hash, and a
\* marked hash stays marked.
C18_ReplayProtection ==
    /\ [](\A proof \in Proofs : Cardinality(Receptions(proof)) <= 1)
    /\ [][ /\ Mined("invoicesFromSource") =>
                 IF Keccak(lastTx'.arg) \in usedProofHashes
                 THEN /\ lastTx'.reverted
                      /\ UNCHANGED <<storageVars, txLog>>
                 ELSE ~lastTx'.reverted => Keccak(lastTx'.arg) \in usedProofHashes'
           /\ usedProofHashes \subseteq usedProofHashes'
         ]_vars

\* C18 witness: a proof was accepted, and a later call with the same proof
\* has reverted as already used.
C18_Witness ==
    /\ lastTx.fn = "invoicesFromSource" /\ lastTx.reverted
    /\ lastTx.reason = "Proof already used"
    /\ Receptions(lastTx.arg) /= {}
    /\ Len(EventsOf("InvoiceReceived", txLog)) = 2

\* C19: a successful invoicesFromSource call was made with a proof that the
\* prover validated, whose source chain is not the contract's own, for which
\* a trusted contract is configured, and whose emitting contract is that
\* contract; every other call reverts, leaving the used-proof set, the rest
\* of the storage and the event log unchanged.  InvoiceReceived events are
\* emitted by no other function.
C19_TrustedSourceOnly ==
    [][ /\ Mined("invoicesFromSource") =>
             LET v == validateEvent(lastTx'.arg)
                 trusted == /\ v.ok
                            /\ v.chainId /= ContractChain
                            /\ trustedSourceContracts[v.chainId] /= ZeroAddress
                            /\ v.emittingContract = trustedSourceContracts[v.chainId] IN
             /\ ~lastTx'.reverted => trusted
             /\ ~trusted => lastTx'.reverted
             /\ lastTx'.reverted => UNCHANGED <<storageVars, txLog>>
        /\ EventsOf("InvoiceReceived", txLog') /= EventsOf("InvoiceReceived", txLog)
             => Mined("invoicesFromSource") /\ ~lastTx'.reverted
      ]_vars

\* C19 witness: with a trusted contract configured for optimism-sepolia, a
\* proof of that contract's batch was accepted and a proof of another
\* contract's batch on the same chain has reverted.
C19_Witness ==
    /\ trustedSourceContracts["optimism-sepolia"] = "batcherOP"
    /\ Receptions("pBatch") /= {}
    /\ lastTx.fn = "invoicesFromSource" /\ lastTx.arg = "pRogue"
    /\ lastTx.reverted /\ lastTx.reason = "Invalid source contract"

\* The arrays of the InvoiceBatch events emitted so far, concatenated.
RECURSIVE Batched(_)
Batched(events) ==
    IF events = <<>> THEN <<>> ELSE Head(events).invoices \o Batched(Tail(events))

\* The hashes of the newInvoice calls that succeeded, in call order.
Accepted ==
    LET calls == SelectSeq(txLog, LAMBDA tx : tx.fn = "newInvoice") IN
    [i \in DOMAIN calls |-> calls[i].arg]

\* C20: the emitted InvoiceBatch arrays, concatenated in emission order and
\* followed by the pending list, are the accepted newInvoice hashes in call
\* order; batchInvoices reverts exactly when nothing is pending, and after a
\* successful batchInvoices getPendingInvoicesCount is 0.
C20_BatchConservation ==
    /\ [](Batched(EventsOf("InvoiceBatch", txLog)) \o pendingInvoices = Accepted)
    /\ [][ Mined("batchInvoices") =>
              /\ lastTx'.reverted <=> pendingInvoices = <<>>
              /\ ~lastTx'.reverted => getPendingInvoicesCount(Storage') = 0
         ]_vars

\* C20 witness: two batches were emitted, the first with two invoices, and
\* nothing is pending.
C20_Witness ==
    /\ Len(EventsOf("InvoiceBatch", txLog)) = 2
    /\ EventsOf("InvoiceBatch", txLog)[1].invoices = <<"h1", "h2">>
    /\ pendingInvoices = <<>>
    /\ lastTx.fn = "batchInvoices" /\ ~lastTx.reverted

\* C21: the answer to a poll has one of three effects.  Not ready (the API
\* gave one of its not-ready answers): attempts is incremented, the timer is
\* awaited and then another poll is sent if attempts < 120, else the call
\* times out.  Ready: the call returns the decoded proof of its request and
\* the fan-out begins.  Service error: the call fails at once.  After a
\* ready proof or an error the run sends no further poll.
C21_PollOutcomes ==
    [][ \A t \in DOMAIN tasks :
          t \in DOMAIN tasks' /\ tasks'[t] /= tasks[t] =>
             LET r == tasks[t]
                 n == tasks'[t] IN
             /\ r.pc = "poll" =>
                   \/ /\ n.pc = "sleep" /\ n.attempts = r.attempts + 1
                      /\ n.polls = r.polls /\ n.proof = NoProof
                      /\ notReadyLeft' = notReadyLeft - 1
                   \/ /\ n.pc \in {"fanout", "done"} /\ n.outcome \in {"none", "completed"}
                      /\ n.proof = DecodeProof(ApiProof(r.request))
                      /\ n.polls = r.polls /\ notReadyLeft' = notReadyLeft
                   \/ /\ n.pc = "done" /\ n.outcome = "pollError"
                      /\ n.proof = NoProof
                      /\ n.polls = r.polls /\ notReadyLeft' = notReadyLeft
             /\ r.pc = "sleep" =>
                   IF r.attempts < MaxAttempts
                   THEN n.pc = "poll" /\ n.polls = r.polls + 1
                   ELSE n.pc = "done" /\ n.outcome = "timeout" /\ n.polls = r.polls
             /\ n.polls /= r.polls => r.pc \in {"request", "sleep"} /\ n.pc = "poll"
      ]_vars

\* C21 witness: a run got its proof at the second poll, after one not-ready
\* answer, and is fanning out.
C21_Witness ==
    \E t \in DOMAIN tasks :
       /\ tasks[t].pc = "fanout" /\ tasks[t].proof /= NoProof
       /\ tasks[t].polls = 2 /\ tasks[t].attempts = 1

\* C22: in a getPolymerProof call the proof request is sent only after the
\* receipt lookup returned a receipt with a batch-event log, and polls only
\* after the request was accepted: a call that failed on the receipt sent no
\* request and no poll, and one whose request was rejected sent no poll.
\* Each failure ends the run with that error.
C22_AcquisitionOrder ==
    \A t \in DOMAIN tasks :
       LET r == tasks[t] IN
       /\ r.pc \in {"cbReceipt", "proofReceipt"} => r.requests = 0 /\ r.polls = 0
       /\ r.pc = "request" => r.requests = 1 /\ r.polls = 0
       /\ r.polls > 0 => r.requests = 1
       /\ r.outcome \in {"receiptMissing", "logNotFound"} =>
             r.pc = "done" /\ r.requests = 0 /\ r.polls = 0
       /\ r.outcome = "requestRejected" =>
             r.pc = "done" /\ r.requests = 1 /\ r.polls = 0
       /\ r.outcome \in {"pollError", "timeout"} => r.requests = 1 /\ r.polls >= 1

\* C22 witness: one run failed because the receipt held no batch-event log
\* and another because its request was rejected.
C22_Witness ==
    \E t1, t2 \in DOMAIN tasks :
       /\ tasks[t1].outcome = "logNotFound" /\ tasks[t1].requests = 0
       /\ tasks[t2].outcome = "requestRejected" /\ tasks[t2].polls = 0

\* C23: a run sends at most one proof request and only runs send one; an
\* invocation of the callback is created by a log delivery and by nothing
\* else, so that a failed acquisition is followed by no run the relayer
\* started on its own, and the requests never outnumber the runs.
C23_NoRetry ==
    /\ [](\A t \in DOMAIN tasks :
            /\ tasks[t].requests <= 1
            /\ tasks[t].requests = 1 => tasks[t].owner)
    /\ [][ /\ Len(tasks') > Len(tasks) => deliveriesLeft' = deliveriesLeft - 1
           /\ \A t \in DOMAIN tasks :
                 t \in DOMAIN tasks' /\ tasks[t].pc = "done" => tasks'[t] = tasks[t]
         ]_vars

\* C23 witness: the only event delivered failed on a rejected proof
\* request; its run is over, one request was sent and nothing is pending.
C23_Witness ==
    /\ Len(tasks) = 1 /\ deliveriesLeft = 0
    /\ tasks[1].outcome = "requestRejected" /\ tasks[1].requests = 1
    /\ processingEvents = {}

\* C24: the targets of a run are pairwise distinct chains, none of them the
\* source chain, whatever ACTIVATED_CHAINS holds, so that a run makes at
\* most one updateChain call per chain.
C24_OneSubmissionPerTarget ==
    \A t \in DOMAIN tasks :
       LET r == tasks[t] IN
       /\ \A i \in DOMAIN r.targets : r.targets[i] /= r.log.chain
       /\ \A i, j \in DOMAIN r.targets : r.targets[i] = r.targets[j] => i = j
       /\ Len(r.subs) <= Len(r.targets)

\* The event a proof attests: the log at the requested position of the
\* requested transaction.
EventOf(proof) ==
    [chain |-> proof.of[1], blk |-> proof.of[2], tx |-> proof.of[3], idx |-> proof.of[4]]

\* C25: every updateChain call of a run carries the proof that run's
\* getPolymerProof call returned, so all its targets get the same proof, and
\* that proof attests the event the run was started for.
C25_ProofForwarded ==
    \A t \in DOMAIN tasks :
       LET r == tasks[t] IN
       /\ Len(r.sent) = Len(r.subs)
       /\ \A i \in DOMAIN r.sent :
             /\ r.sent[i] = r.proof
             /\ r.proof /= NoProof
             /\ EventOf(r.sent[i]) = r.log

\* The position, in the receipt of the transaction, of its first batch event.
FirstBatchPosition == CHOOSE i \in BatchLogIndexes : \A j \in BatchLogIndexes : i <= j

\* C28: the log position of every proof request is that of the first batch
\* event of the transaction the delivered log belongs to, whatever the index
\* of the delivered log: the requests for two batch events of one
\* transaction are the same.
C28_FirstMatch ==
    \A t \in DOMAIN tasks :
       tasks[t].requests > 0 =>
          tasks[t].request =
             <<tasks[t].log.chain, tasks[t].log.blk, tasks[t].log.tx, FirstBatchPosition>>

\* C28 witness: runs of the two batch events of one transaction, one after
\* the other, have both sent their request, for the same position, which is
\* not the index of the second event.
C28_Witness ==
    \E t1, t2 \in DOMAIN tasks :
       /\ tasks[t1].log.idx /= tasks[t2].log.idx /\ SameTicket(t1, t2)
       /\ tasks[t1].requests = 1 /\ tasks[t2].requests = 1
       /\ tasks[t1].request = tasks[t2].request
       /\ tasks[t2].request[4] /= tasks[t2].log.idx

\* C26 as stated: startup is aborted only if no chain could be listened
\* to; with a listener already started the relayer keeps running when
\* another listener's start fails.
C26_AbortOnlyWithoutListener ==
    [][ exited = "no" /\ exited' = "error" =>
           \A c \in PrefixedKeys : ~isListening[c] ]_vars

\* C26: a step of Relayer.start() either leaves the listener it awaited
\* listening or ends the process; a failure is never skipped, so that main
\* reaches the end of startup only with every listener listening, and the
\* process ends at the first failure even if other listeners had started.
C26_StartFailureFatal ==
    /\ [][ mainPc = "starting" /\ (mainPc' /= mainPc \/ startIdx' /= startIdx) =>
             \/ exited' \in {"error", "sigint"}
             \/ /\ isListening'[listeners[startIdx]]
                /\ subscriptions'[listeners[startIdx]] = 1 ]_vars
    /\ [](mainPc = "watching" /\ sigPc = "none" =>
             \A i \in DOMAIN listeners : isListening[listeners[i]])

\* C26 witness: the process ended on a start failure while a run of an
\* event delivered by a listener that had started was polling.
C26_Witness == exited = "error" /\ "poll" \in abandoned

\* The relayer's phases in order: constructed, initialized and starting its
\* listeners, running, stopped (the process has ended).
PhaseRank(pc) ==
    CASE pc = "new" -> 0 [] pc = "starting" -> 1 [] pc = "watching" -> 2 [] pc = "exited" -> 3

\* C27: the relayer moves through its phases in order and never back.  A
\* listener listens only after init() has succeeded; when init() fails the
\* process ends and start() is not called.  A listener that stop() has gone
\* past never listens again, and when stop() has completed the process has
\* ended: no listener is listening and the relayer does not run again.
C27_LifecycleOrder ==
    /\ [][ /\ PhaseRank(mainPc') >= PhaseRank(mainPc)
           /\ mainPc = "new" /\ mainPc' /= "new" =>
                 IF Listenable = <<>>
                 THEN exited' = "error"
                 ELSE /\ mainPc' = "starting"
                      /\ \A c \in PrefixedKeys : ~isListening'[c]
           /\ exited /= "no" => exited' = exited
         ]_vars
    /\ [](\A c \in PrefixedKeys :
            isListening[c] \/ subscriptions[c] > 0 =>
               /\ mainPc \in {"starting", "watching"}
               /\ c \in SeqToSet(listeners))
    /\ [](sigPc = "stopping" =>
            \A i \in 1..(stopIdx - 1) :
               ~isListening[listeners[i]] /\ subscriptions[listeners[i]] = 0)
    /\ [](exited /= "no" =>
            /\ mainPc = "exited"
            /\ \A c \in PrefixedKeys : ~isListening[c] /\ subscriptions[c] = 0)

\* C27 witness: the relayer was running when the signal came; stop() has
\* stopped the first listener and is awaiting the second.
C27_Witness ==
    /\ mainPc = "watching" /\ sigPc = "stopping" /\ stopIdx = 2
    /\ ~isListening[listeners[1]] /\ isListening[listeners[2]]

\* C29: a setTrustedSourceContract transaction succeeds exactly when its
\* sender is the admin, the chain is not the contract's own and the address
\* is not zero; it then sets the entry of that chain to that address and
\* leaves every other entry and all other storage as they were.  Otherwise
\* it reverts and nothing changes.  No other function changes the mapping.
C29_SetTrustedSource ==
    [][ /\ Mined("setTrustedSourceContract") =>
             LET chainId == lastTx'.arg[1]
                 sourceContract == lastTx'.arg[2]
                 allowed == /\ lastTx'.sender = admin
                            /\ chainId /= ContractChain
                            /\ sourceContract /= ZeroAddress IN
             /\ lastTx'.reverted <=> ~allowed
             /\ lastTx'.reverted => UNCHANGED <<storageVars, txLog>>
             /\ ~lastTx'.reverted =>
                   /\ trustedSourceContracts'[chainId] = sourceContract
                   /\ \A c \in ChainIds \ {chainId} :
                         trustedSourceContracts'[c] = trustedSourceContracts[c]
                   /\ UNCHANGED <<admin, pendingInvoices, usedProofHashes>>
        /\ trustedSourceContracts' /= trustedSourceContracts =>
             Mined("setTrustedSourceContract") /\ ~lastTx'.reverted
      ]_vars

\* C29 witness: the admin has set the entries of two chains, replacing an
\* earlier address in one of them, and a call by another sender has just
\* reverted.
C29_Witness ==
    /\ trustedSourceContracts["optimism-sepolia"] = "batcherOP"
    /\ trustedSourceContracts["arbitrum-sepolia"] = "batcherARB"
    /\ \E i \in DOMAIN txLog :
          /\ txLog[i].fn = "setTrustedSourceContract"
          /\ txLog[i].arg = <<"optimism-sepolia", "batcherARB">>
    /\ lastTx.fn = "setTrustedSourceContract" /\ lastTx.sender = "user"
    /\ lastTx.arg = <<"arbitrum-sepolia", "batcherOP">>
    /\ lastTx.reverted /\ lastTx.reason = "Only admin can set trusted sources"

\* C30: however start() calls on one listener interleave, the listener
\* holds at most one registration of the batch-event callback, so that the
\* delivery of a log invokes the callback once.
C30_OneSubscription ==
    /\ \A c \in PrefixedKeys : subscriptions[c] <= 1
    /\ \A t1, t2 \in DOMAIN tasks : t1 = t2

\* The latest call made on the listener of c is a stop() that has returned.
StopReturnedLast(c) ==
    LET calls == {i \in DOMAIN callLog : callLog[i].chain = c} IN
    /\ calls /= {}
    /\ callLog[CHOOSE i \in calls : \A j \in calls : i >= j].op = "stop"
    /\ pendingCalls[c].stop = 0

\* C31: once a stop() on a listener has returned, and until the next call
\* on it, the listener holds no subscription and isListening is false, also
\* when the stop() was called while a start() on it was suspended.
C31_StopAfterStart ==
    \A c \in PrefixedKeys :
       StopReturnedLast(c) => subscriptions[c] = 0 /\ ~isListening[c]

\* The invocation t ends in this step with its handleEvent call returned.
CallbackReturns(t) ==
    /\ t \in DOMAIN tasks /\ t \in DOMAIN tasks'
    /\ tasks[t].pc /= "done" /\ tasks'[t].pc = "done"
    /\ tasks'[t].outcome \notin {"cbError", "skipProcessed"}

\* C32: while the process lives a listener's processedEvents set only
\* grows, and an event id enters it only in the step in which the handleEvent
\* call of an invocation for that log returns.  An invocation whose receipt
\* lookup fails records nothing, and a log whose id is not recorded is not
\* skipped when it is delivered again: its invocation goes on to the
\* receipt lookup and handleEvent.
C32_DedupDiscipline ==
    [][ exited' = "no" =>
          /\ \A c \in PrefixedKeys :
                /\ processedEvents[c] \subseteq processedEvents'[c]
                /\ \A id \in processedEvents'[c] \ processedEvents[c] :
                      \E t \in DOMAIN tasks :
                         /\ CallbackReturns(t)
                         /\ tasks[t].log.chain = c /\ ListenerEventId(tasks[t].log) = id
          /\ \A t \in DOMAIN tasks :
                tasks[t].pc = "cbReceipt" /\ tasks'[t].outcome = "cbError" =>
                   processedEvents' = processedEvents
          /\ \A t \in DOMAIN tasks' \ DOMAIN tasks :
                IF ListenerEventId(tasks'[t].log) \in processedEvents[tasks'[t].log.chain]
                THEN tasks'[t].outcome = "skipProcessed"
                ELSE tasks'[t].pc = "cbReceipt"
      ]_vars

\* C32 witness: the receipt lookup of one delivery of a log failed, the
\* log's id was therefore not recorded by it, and another delivery of the
\* same log was handed to handleEvent and ran to completion, after which
\* the id is recorded.
C32_Witness ==
    \E t1, t2 \in DOMAIN tasks :
       /\ tasks[t1].outcome = "cbError" /\ t1 < t2
       /\ tasks[t2].log = tasks[t1].log /\ tasks[t2].owner
       /\ tasks[t2].outcome = "completed"
       /\ ListenerEventId(tasks[t1].log) \in processedEvents[tasks[t1].log.chain]

\* C33: a run ends by returning to the callback whatever its outcome, a
\* failed proof acquisition or failed submissions included, and never ends
\* the process; the callback then records the event id, so the id of every
\* ended run is recorded.  A log delivered by that listener when its id is
\* recorded is skipped: its invocation sends no proof request.
C33_FailedMarkedProcessed ==
    /\ [][ /\ \A t \in DOMAIN tasks :
                 tasks[t].owner /\ tasks[t].pc /= "done" /\ t \in DOMAIN tasks'
                 /\ tasks'[t].pc = "done" =>
                    /\ exited' = "no"
                    /\ tasks'[t].outcome \in AcquisitionFailures \cup {"completed"}
                    /\ ListenerEventId(tasks[t].log) \in processedEvents'[tasks[t].log.chain]
           /\ \A t \in DOMAIN tasks' \ DOMAIN tasks :
                 ListenerEventId(tasks'[t].log) \in processedEvents[tasks'[t].log.chain] =>
                    tasks'[t].pc = "done" /\ tasks'[t].requests = 0
         ]_vars
    /\ [](\A t \in DOMAIN tasks :
            /\ tasks[t].owner /\ tasks[t].pc = "done" =>
                  ListenerEventId(tasks[t].log) \in processedEvents[tasks[t].log.chain]
            /\ tasks[t].outcome = "skipProcessed" =>
                  tasks[t].requests = 0 /\ ~tasks[t].owner)

\* C33 witness: a run whose proof request was rejected has ended, its
\* event id is recorded, and a later delivery of the same log was skipped
\* without a request.
C33_Witness ==
    \E t1, t2 \in DOMAIN tasks :
       /\ tasks[t1].owner /\ tasks[t1].outcome = "requestRejected"
       /\ t1 < t2 /\ tasks[t2].log = tasks[t1].log
       /\ tasks[t2].outcome = "skipProcessed" /\ tasks[t2].requests = 0
       /\ ListenerEventId(tasks[t1].log) \in processedEvents[tasks[t1].log.chain]

\* C34 as stated: every run that has created a ticket eventually ends, the
\* ticket removed by its finally block.
C34_EveryRunEnds ==
    \A t \in 1..MaxDeliveries :
       Running(t) ~> (t \in DOMAIN tasks /\ tasks[t].pc = "done"
                      /\ TicketId(tasks[t].log) \notin processingEvents)

\* C34: when every external call eventually settles, a run that has created
\* a ticket eventually ends, at the latest by the timeout of the poll loop,
\* and its ticket is removed, unless the process exits first, which
\* abandons the run; a ticket is held only by a run in progress, so no
\* ticket is held forever.
C34_RunTermination ==
    /\ \A t \in 1..MaxDeliveries :
          Running(t) ~> \/ exited /= "no"
                        \/ /\ t \in DOMAIN tasks /\ tasks[t].pc = "done"
                           /\ TicketId(tasks[t].log) \notin processingEvents
    /\ [](\A id \in processingEvents :
            \E t \in DOMAIN tasks : Running(t) /\ TicketId(tasks[t].log) = id)

\* C34 witness: a run polled until the loop's bound, ended with the
\* timeout and removed its ticket, in a process that is still alive.
C34_Witness ==
    /\ exited = "no" /\ processingEvents = {}
    /\ \E t \in DOMAIN tasks :
          tasks[t].owner /\ tasks[t].pc = "done" /\ tasks[t].outcome = "timeout"

\* C35: in every state of the contract the admin is the deployer, the
\* trusted-source entry of the contract's own chain is the zero address,
\* and no transaction removes a proof hash from the used ones or changes
\* the admin.
C35_ConfigInvariants ==
    /\ [](admin = Deployer)
    /\ [](trustedSourceContracts[ContractChain] = ZeroAddress)
    /\ [][ /\ admin' = admin
           /\ \A h \in usedProofHashes : h \in usedProofHashes'
           /\ trustedSourceContracts'[ContractChain] = trustedSourceContracts[ContractChain]
         ]_vars

\* C35 witness: with a trusted source set and a proof hash marked used, the
\* admin's call to set a source for the contract's own chain has reverted;
\* the hash is still marked.
C35_Witness ==
    /\ Keccak("pBatch") \in usedProofHashes
    /\ trustedSourceContracts["optimism-sepolia"] /= ZeroAddress
    /\ lastTx.fn = "setTrustedSourceContract" /\ lastTx.sender = Deployer
    /\ lastTx.arg[1] = ContractChain /\ lastTx.arg[2] /= ZeroAddress
    /\ lastTx.reverted /\ lastTx.reason = "Cannot set source for current chain"

====
